---------------------------- MODULE Spec2Model ----------------------------
(***************************************************************************)
(* A model of the two cores of drive-scanner-service:                      *)
(*   - the batch planner of preparation_planner.py (plan_concatenation and *)
(*     generate_and_upload_diff), specifications SpecPlanner, SpecReplan;  *)
(*   - the change listener of drive_listener.py (full scan, patch, main),  *)
(*     specifications Spec, SpecFaults, SpecBatch, SpecListing, SpecScan.  *)
(* Sizes are counted in units of 10 MB; names are single path components.  *)
(***************************************************************************)
EXTENDS Integers, Sequences, FiniteSets, TLC

VARIABLES
    client_files,        \* planner: id -> file record of the client's files in the scan
    plan_file,           \* planner: <client>_plan.json, the plan of the latest run
    plan_last_run_file,  \* planner: <client>_plan_last_run.json, the plan before it
    runs,                \* planner: the number of planner runs so far
    scan_runs,           \* listener: what each full scan of SpecScan collected and wrote
    scanning,            \* listener: the full scan that main is in the middle of (SpecListing)
    remote_tree,         \* listener: the items of the tracked shared drive, by id
    change_log,          \* listener: the ids of the changed items, oldest first
    remote_scan,         \* listener: drive_scan.jsonl in the upload folder, <<>> if absent
    local_scan,          \* listener: TEMP_DIR/drive_scan.jsonl, <<>> if absent
    state_file,          \* listener: change_listener_state.json
    pc,                  \* listener: where main is: "boot", "loop" or "exited"
    last_token,          \* listener: main's last_token
    last_scan_timestamp, \* listener: main's last_scan_timestamp
    now,                 \* listener: time.time(), in polling intervals
    faults_left,         \* listener: how many more steps of main may see a request fail
    sync_token,          \* history: a token at which remote_scan was a full scan of the tree
    event                \* history: what the last step did

planner_vars == <<client_files, plan_file, plan_last_run_file, runs>>

drive_vars == <<remote_tree, change_log>>

listener_vars ==
    <<remote_scan, local_scan, state_file, pc, last_token, last_scan_timestamp, now,
      faults_left, sync_token, event>>

vars ==
    <<client_files, plan_file, plan_last_run_file, runs, scan_runs, scanning, remote_tree,
      change_log, remote_scan, local_scan, state_file, pc, last_token,
      last_scan_timestamp, now, faults_left, sync_token, event>>

(***************************************************************************)
(* Bounds of the planner model.                                            *)
(***************************************************************************)
NumTasks == 3
MaxRuns == 2
LimitUnits == 10

(***************************************************************************)
(* Bounds of the listener model.                                           *)
(***************************************************************************)
NumItems == 4
NumNames == 2
PageSize == 1
MaxCreated == 3
MaxChanges == 3
MaxTime == 3
MaxFaults == 1
RescanTicks == 1

TaskIds == 1..NumTasks
\* The sizes a file can have: 40, 50, 60 MB and one size above the limit.
Sizes == {4, 5, 6, LimitUnits + 1}
MimeTypes == {"application/pdf", "text/plain", "application/zip"}
FormatKeys == {"pdf", "txt", "none"}

(***************************************************************************)
(* Generic helpers.                                                        *)
(***************************************************************************)
Range(s) == {s[i] : i \in DOMAIN s}

Perms(S) == {s \in [1..Cardinality(S) -> S] : \A i, j \in DOMAIN s : i /= j => s[i] /= s[j]}

RECURSIVE SeqSum(_)
SeqSum(s) == IF s = <<>> THEN 0 ELSE Head(s) + SeqSum(Tail(s))

RECURSIVE FilterSeq(_, _)
FilterSeq(s, keep) ==
    IF s = <<>> THEN <<>>
    ELSE IF Head(s) \in keep THEN <<Head(s)>> \o FilterSeq(Tail(s), keep)
         ELSE FilterSeq(Tail(s), keep)

(***************************************************************************)
(* preparation_planner.py                                                  *)
(***************************************************************************)
NoFile == [mimeType |-> "absent", size |-> 0]
\* The size of a file that is planned as IGNORE is never read: one size stands for all.
FileRecs ==
    [mimeType : {"application/pdf", "text/plain"}, size : Sizes]
        \cup [mimeType : {"application/zip"}, size : {4}]

\* limit_bytes = CONCATENATION_SIZE_LIMIT_MB * 1024 * 1024, in model units.
limit_bytes == LimitUnits

get_task_for_file(file_info) ==
    IF file_info.mimeType = "application/pdf"
    THEN [task_type |-> "DIRECT_INCLUDE", output_format |-> "pdf",
          estimated_size_bytes |-> file_info.size]
    ELSE IF file_info.mimeType = "text/plain"
    THEN [task_type |-> "DIRECT_INCLUDE", output_format |-> "txt",
          estimated_size_bytes |-> file_info.size]
    ELSE [task_type |-> "IGNORE", output_format |-> "none",
          estimated_size_bytes |-> file_info.size]

\* processing_tasks of main: one task per file of the client, keyed by file id.
ProcessingTasks(files) ==
    [id \in {i \in TaskIds : files[i] /= NoFile} |-> get_task_for_file(files[id])]

EmptyConcatenationPlan == [f \in FormatKeys |-> <<>>]
NoPlan == [present |-> FALSE, processing_tasks |-> <<>>,
           concatenation_plan |-> EmptyConcatenationPlan]

\* sum(t['estimated_size_bytes'] for t in b['source_tasks'])
BatchSize(b, tasks_map) ==
    SeqSum([i \in DOMAIN b.source_tasks |-> tasks_map[b.source_tasks[i]].estimated_size_bytes])

\* All batches of a plan, in the order `for file_type ... for batch in batch_list`.
\* The order among the lists of different keys does not reach the result: every
\* later step works on one key's list.
OldBatchList(last_run_plan, file_type) ==
    LET all == last_run_plan.concatenation_plan
    IN  all[file_type]

\* A planner that retains no batch of the previous plan.
RetainNothing(last_run_plan, file_type, current_tasks_map, deleted_task_ids) == <<>>

\* Lines 242-262: the retained batches of one file type, members filtered.
RetainedBatches(last_run_plan, file_type, current_tasks_map, deleted_task_ids) ==
    LET old == OldBatchList(last_run_plan, file_type)
        keep == DOMAIN current_tasks_map \cup (TaskIds \ deleted_task_ids)
        filtered == [i \in DOMAIN old |->
                        [batch_id |-> old[i].batch_id,
                         source_tasks |-> FilterSeq(old[i].source_tasks,
                                                    TaskIds \ deleted_task_ids)]]
        RECURSIVE NonEmpty(_)
        NonEmpty(s) == IF s = <<>> THEN <<>>
                       ELSE IF Head(s).source_tasks /= <<>>
                            THEN <<Head(s)>> \o NonEmpty(Tail(s))
                            ELSE NonEmpty(Tail(s))
    IN  NonEmpty(filtered)

\* Lines 264-270: a retained batch above the limit is taken apart.
OverLimit(b, tasks_map) == BatchSize(b, tasks_map) > limit_bytes

RECURSIVE DropOverLimit(_, _)
DropOverLimit(batch_list, tasks_map) ==
    IF batch_list = <<>> THEN <<>>
    ELSE IF OverLimit(Head(batch_list), tasks_map)
         THEN DropOverLimit(Tail(batch_list), tasks_map)
         ELSE <<Head(batch_list)>> \o DropOverLimit(Tail(batch_list), tasks_map)

DeconstructedTasks(batch_list, tasks_map) ==
    UNION {Range(batch_list[i].source_tasks) :
              i \in {j \in DOMAIN batch_list : OverLimit(batch_list[j], tasks_map)}}

\* TargetBatchIndex without the test against the limit.
TargetBatchIndexNoLimit(batch_list, task, tasks_map) ==
    IF batch_list = <<>> THEN 0
    ELSE CHOOSE i \in DOMAIN batch_list :
            \A j \in DOMAIN batch_list :
                \/ BatchSize(batch_list[i], tasks_map) < BatchSize(batch_list[j], tasks_map)
                \/ /\ BatchSize(batch_list[i], tasks_map) = BatchSize(batch_list[j], tasks_map)
                   /\ i <= j

\* Lines 277-283: sorted(eligible, key=size)[0]; the sort is stable, so among the
\* eligible batches of the smallest size the first of the list is taken.
\* 0 when no batch is eligible.
TargetBatchIndex(batch_list, task, tasks_map) ==
    LET eligible == {i \in DOMAIN batch_list :
                        BatchSize(batch_list[i], tasks_map) + task.estimated_size_bytes
                            <= limit_bytes}
    IN  IF eligible = {} THEN 0
        ELSE CHOOSE i \in eligible :
                \A j \in eligible :
                    \/ BatchSize(batch_list[i], tasks_map) < BatchSize(batch_list[j], tasks_map)
                    \/ /\ BatchSize(batch_list[i], tasks_map) = BatchSize(batch_list[j], tasks_map)
                       /\ i <= j

\* The counter without the loop of lines 292-294.
FirstBatchCounter(batch_list, file_type, batch_counter) == batch_counter

\* Lines 290-294: the first number from len+1 on that no batch of the list carries.
RECURSIVE NextBatchCounter(_, _, _)
NextBatchCounter(batch_list, file_type, batch_counter) ==
    IF \E i \in DOMAIN batch_list : batch_list[i].batch_id = <<file_type, batch_counter>>
    THEN NextBatchCounter(batch_list, file_type, batch_counter + 1)
    ELSE batch_counter

\* Lines 274-301 for one task.
PlaceTask(plan, tid, tasks_map) ==
    LET task == tasks_map[tid]
        file_type == task.output_format
        batch_list == plan[file_type]
        target == TargetBatchIndex(batch_list, task, tasks_map)
    IN  IF target /= 0
        THEN [plan EXCEPT ![file_type][target].source_tasks = Append(@, tid)]
        ELSE LET n == NextBatchCounter(batch_list, file_type, Len(batch_list) + 1)
             IN  [plan EXCEPT ![file_type] =
                     Append(@, [batch_id |-> <<file_type, n>>, source_tasks |-> <<tid>>])]

RECURSIVE PlaceAll(_, _, _)
PlaceAll(plan, order, tasks_map) ==
    IF order = <<>> THEN plan
    ELSE PlaceAll(PlaceTask(plan, Head(order), tasks_map), Tail(order), tasks_map)

\* The ids of the tasks to place after lines 236-270.
TasksToPlace(tasks, last_run_plan) ==
    LET current_tasks_map == [id \in {i \in DOMAIN tasks : tasks[i].task_type /= "IGNORE"}
                                 |-> tasks[id]]
        old_task_ids == IF last_run_plan.present
                        THEN DOMAIN last_run_plan.processing_tasks ELSE {}
        current_task_ids == DOMAIN current_tasks_map
        deleted_task_ids == old_task_ids \ current_task_ids
        retained == [f \in FormatKeys |->
                        RetainedBatches(last_run_plan, f, current_tasks_map, deleted_task_ids)]
    IN  (current_task_ids \ old_task_ids)
            \cup UNION {DeconstructedTasks(retained[f], current_tasks_map) : f \in FormatKeys}

\* Line 273: sorted(tasks_to_place, key=size, reverse=True) over a list built by
\* iterating a set of strings. The sort is stable and the set's iteration order is
\* not fixed, so every order of non-increasing size can come out.
PlacementOrders(ids, tasks) ==
    {s \in Perms(ids) :
        \A i, j \in DOMAIN s :
            i < j => tasks[s[i]].estimated_size_bytes >= tasks[s[j]].estimated_size_bytes}

\* plan_concatenation(tasks, last_run_plan) with the placement order `order`.
plan_concatenation(tasks, last_run_plan, order) ==
    LET current_tasks_map == [id \in {i \in DOMAIN tasks : tasks[i].task_type /= "IGNORE"}
                                 |-> tasks[id]]
        old_task_ids == IF last_run_plan.present
                        THEN DOMAIN last_run_plan.processing_tasks ELSE {}
        deleted_task_ids == old_task_ids \ DOMAIN current_tasks_map
        retained == [f \in FormatKeys |->
                        RetainedBatches(last_run_plan, f, current_tasks_map, deleted_task_ids)]
        kept == [f \in FormatKeys |-> DropOverLimit(retained[f], current_tasks_map)]
    IN  PlaceAll(kept, order, current_tasks_map)

(***************************************************************************)
(* generate_and_upload_diff: one entry per file id whose batch differs.    *)
(***************************************************************************)
NoBatch == <<"none", 0>>

\* {task id: batch id for every batch, for every member}
FileToBatch(p, id) ==
    LET cp == p.concatenation_plan
        hits == {b \in UNION {Range(cp[f]) : f \in FormatKeys} : id \in Range(b.source_tasks)}
    IN  IF hits = {} THEN NoBatch ELSE (CHOOSE b \in hits : TRUE).batch_id

\* The diff without the test `old_batch != new_batch`.
generate_diff_all(baseline_plan, new_plan) ==
    LET all_file_ids == {id \in TaskIds : FileToBatch(baseline_plan, id) /= NoBatch
                                          \/ FileToBatch(new_plan, id) /= NoBatch}
        Entry(id) ==
            LET old_batch == FileToBatch(baseline_plan, id)
                new_batch == FileToBatch(new_plan, id)
            IN  [file_id |-> id,
                 kind |-> IF old_batch /= NoBatch /\ new_batch /= NoBatch THEN "MOVED"
                          ELSE IF new_batch /= NoBatch THEN "ADDED" ELSE "REMOVED",
                 from |-> old_batch, to |-> new_batch]
    IN  {Entry(id) : id \in all_file_ids}

generate_diff(baseline_plan, new_plan) ==
    LET all_file_ids == {id \in TaskIds : FileToBatch(baseline_plan, id) /= NoBatch
                                          \/ FileToBatch(new_plan, id) /= NoBatch}
        Entry(id) ==
            LET old_batch == FileToBatch(baseline_plan, id)
                new_batch == FileToBatch(new_plan, id)
            IN  [file_id |-> id,
                 kind |-> IF old_batch /= NoBatch /\ new_batch /= NoBatch THEN "MOVED"
                          ELSE IF new_batch /= NoBatch THEN "ADDED" ELSE "REMOVED",
                 from |-> old_batch, to |-> new_batch]
    IN  {Entry(id) : id \in {i \in all_file_ids :
                                FileToBatch(baseline_plan, i) /= FileToBatch(new_plan, i)}}

(***************************************************************************)
(* drive_listener.py: the remote tree and the cache records.               *)
(*                                                                         *)
(* The remote tree is the shared drive DRIVE_FOLDER_ID (item Root) and     *)
(* items 1..NumItems. A name is a number and a path the sequence of the    *)
(* names from the root down: f"{parent}/{name}" is Append(parent, name),   *)
(* p.startswith(q + "/") is "q is a proper prefix of p" and p.count("/")   *)
(* is Len(p) - 1. Two items of one folder never share a name (spec 3).     *)
(***************************************************************************)
Root == 0
ItemIds == 1..NumItems
Names == 1..NumNames
RootName == 0
NoId == -1

Unborn == [state |-> "unborn", name |-> 0, parent |-> 0, folder |-> FALSE]
Gone == [state |-> "gone", name |-> 0, parent |-> 0, folder |-> FALSE]
LiveItems == [state : {"live"}, name : Names, parent : {Root} \cup ItemIds, folder : BOOLEAN]

Live(tree, id) == id \in ItemIds /\ tree[id].state = "live"

IsFolder(tree, id) == id = Root \/ (Live(tree, id) /\ tree[id].folder)

\* The items that a listing of folder_id returns: '<folder_id>' in parents.
ChildrenOf(tree, folder_id) == {id \in ItemIds : Live(tree, id) /\ tree[id].parent = folder_id}

\* The folders above an item, following `parent` at most n times.
RECURSIVE AncestorsUpTo(_, _, _)
AncestorsUpTo(tree, id, n) ==
    IF n = 0 \/ id = Root \/ ~Live(tree, id) THEN {}
    ELSE {tree[id].parent} \cup AncestorsUpTo(tree, tree[id].parent, n - 1)

Ancestors(tree, id) == AncestorsUpTo(tree, id, NumItems)

\* A tree of the remote service: parents are live folders, no cycle, and no two
\* items of one folder with the same name.
WellFormed(tree) ==
    /\ \A id \in ItemIds : Live(tree, id) => IsFolder(tree, tree[id].parent)
    /\ \A id \in ItemIds : Live(tree, id) => id \notin Ancestors(tree, id)
    /\ \A a, b \in ItemIds :
           (/\ a /= b /\ Live(tree, a) /\ Live(tree, b)
            /\ tree[a].parent = tree[b].parent) => tree[a].name /= tree[b].name

\* The position of an item in the order `sched` (a permutation of the item ids).
Rank(sched, id) == IF id = Root THEN 0 ELSE CHOOSE i \in DOMAIN sched : sched[i] = id

\* The elements of a set of item ids as a sequence, in the order `sched`.
RECURSIVE InOrder(_, _)
InOrder(S, sched) ==
    IF S = {} THEN <<>>
    ELSE LET first == CHOOSE a \in S : \A b \in S : Rank(sched, a) <= Rank(sched, b)
         IN  <<first>> \o InOrder(S \ {first}, sched)

Min(a, b) == IF a < b THEN a ELSE b

\* A record of drive_scan.jsonl. `fields` are the keys the JSON object carries.
ListedFields == {"id", "name", "mimeType", "path", "indent"}
RootFields == {"id", "name", "mimeType", "driveId", "path", "indent"}
PatchedFields == {"parents", "name", "mimeType", "path", "indent"}

NoFault == <<"none">>

(***************************************************************************)
(* _scan_worker: the listing of one folder, page by page. The service      *)
(* returns the children in the order `listing`; a request that fails ends  *)
(* the loop and the pages read so far are returned.                        *)
(***************************************************************************)
NumPages(n) == IF n = 0 THEN 1 ELSE (n + PageSize - 1) \div PageSize

ListFaultFires(tree, folder_id, fault) ==
    /\ fault[1] = "list"
    /\ fault[2] = folder_id
    /\ fault[3] <= NumPages(Cardinality(ChildrenOf(tree, folder_id)))

\* A worker that returns after the first page, without a look at nextPageToken.
_scan_worker_first_page(tree, folder_id, folder_path, indent, listing, fault) ==
    LET kids == InOrder(ChildrenOf(tree, folder_id), listing)
        listed == SubSeq(kids, 1, Min(Len(kids), PageSize))
        item_data == [i \in DOMAIN listed |->
                         [id |-> listed[i],
                          name |-> tree[listed[i]].name,
                          folder |-> tree[listed[i]].folder,
                          fields |-> ListedFields,
                          path |-> Append(folder_path, tree[listed[i]].name),
                          indent |-> indent]]
    IN  [files |-> SelectSeq(item_data, LAMBDA r : ~r.folder),
         folders |-> SelectSeq(item_data, LAMBDA r : r.folder)]

_scan_worker(tree, folder_id, folder_path, indent, listing, fault) ==
    LET kids == InOrder(ChildrenOf(tree, folder_id), listing)
        ok_pages == IF ListFaultFires(tree, folder_id, fault)
                    THEN fault[3] - 1 ELSE NumPages(Len(kids))
        listed == SubSeq(kids, 1, Min(Len(kids), ok_pages * PageSize))
        item_data == [i \in DOMAIN listed |->
                         [id |-> listed[i],
                          name |-> tree[listed[i]].name,
                          folder |-> tree[listed[i]].folder,
                          fields |-> ListedFields,
                          path |-> Append(folder_path, tree[listed[i]].name),
                          indent |-> indent]]
    IN  [files |-> SelectSeq(item_data, LAMBDA r : ~r.folder),
         folders |-> SelectSeq(item_data, LAMBDA r : r.folder)]

(***************************************************************************)
(* _perform_scan: every completed worker's files and folders are appended  *)
(* and a worker is submitted for each of its folders. Which of the         *)
(* submitted workers completes first is not fixed: here the one whose      *)
(* folder comes first in `sched`, and `sched` is the order of the listings *)
(* or its reverse; in the scans of SpecScan (WorkerOrders) it is also      *)
(* every order of the folders, with the listings in the order of the ids.  *)
(***************************************************************************)
RECURSIVE ScanLoop(_, _, _, _, _, _)
ScanLoop(tree, active_futures, scan_results, listing, sched, fault) ==
    IF active_futures = {} THEN scan_results
    ELSE LET f == CHOOSE a \in active_futures :
                      \A b \in active_futures : Rank(sched, a.id) <= Rank(sched, b.id)
             w == _scan_worker(tree, f.id, f.path, f.indent + 1, listing, fault)
             submitted == {[id |-> r.id, path |-> r.path, indent |-> r.indent] :
                              r \in Range(w.folders)}
         IN  ScanLoop(tree, (active_futures \ {f}) \cup submitted,
                      scan_results \o w.files \o w.folders, listing, sched, fault)

Reverse(s) == [i \in DOMAIN s |-> s[Len(s) + 1 - i]]

WorkerOrders(listing) ==
    {listing, Reverse(listing)}
        \cup (IF \A i \in DOMAIN listing : listing[i] = i THEN Perms(Range(listing))
              ELSE {})

_perform_scan(tree, root_folder_id, root_path, root_indent, listing, sched, fault) ==
    ScanLoop(tree, {[id |-> root_folder_id, path |-> root_path, indent |-> root_indent]},
             <<>>, listing, sched, fault)

(***************************************************************************)
(* sorted(..., key=path): Python compares the strings; the sort is stable. *)
(***************************************************************************)
RECURSIVE PathLess(_, _)
PathLess(p, q) ==
    IF q = <<>> THEN FALSE
    ELSE IF p = <<>> THEN TRUE
    ELSE IF Head(p) /= Head(q) THEN Head(p) < Head(q)
    ELSE PathLess(Tail(p), Tail(q))

\* The unsorted list as it is: a sort that does nothing.
UnsortedList(records) == records

\* r goes to the end, whatever its path.
InsertAtEnd(sorted, r) == Append(sorted, r)

\* r goes behind the records that do not come after it.
InsertByPath(sorted, r) ==
    SelectSeq(sorted, LAMBDA x : ~PathLess(r.path, x.path)) \o <<r>>
        \o SelectSeq(sorted, LAMBDA x : PathLess(r.path, x.path))

RECURSIVE SortInto(_, _)
SortInto(sorted, records) ==
    IF records = <<>> THEN sorted
    ELSE SortInto(InsertByPath(sorted, Head(records)), Tail(records))

SortByPath(records) == SortInto(<<>>, records)

(***************************************************************************)
(* run_full_scan_workflow, lines 205-214: the root's record, the scan,     *)
(* the sort, and the lines written to drive_scan.jsonl.                    *)
(***************************************************************************)
RootRecord ==
    [id |-> Root, name |-> RootName, folder |-> TRUE, fields |-> RootFields,
     path |-> <<RootName>>, indent |-> -1]

FullScanResults(tree, listing, sched, fault) ==
    <<RootRecord>> \o _perform_scan(tree, Root, RootRecord.path, -1, listing, sched, fault)

FullScanFile(tree, listing, sched, fault) ==
    SortByPath(FullScanResults(tree, listing, sched, fault))

\* The position of the record of item id in a list of records.
IndexOf(records, id) == CHOOSE i \in DOMAIN records : records[i].id = id

(***************************************************************************)
(* The change feed and the state file.                                     *)
(*                                                                         *)
(* A page token is a position in change_log: get_start_page_token returns  *)
(* its length and list_changes(token) the changes after position token,    *)
(* one record per item, together with the new length.                      *)
(***************************************************************************)
NoToken == -1

\* No full scan in the middle: `workflow` is "initial" or "rescan" while main runs
\* run_full_scan_workflow and until it has the token; `started` and `ended` are the
\* lengths of the change log when _perform_scan began and when it returned;
\* active_futures and scan_results are those of _perform_scan; `token` is a token
\* that main has got already.
NoScan ==
    [workflow |-> "none", started |-> NoToken, ended |-> NoToken, active_futures |-> {},
     scan_results |-> <<>>, token |-> NoToken]

\* change_listener_state.json: whether it exists, whether json.load can parse it,
\* and the two values last written to it. NoState is the missing file.
NoState ==
    [present |-> FALSE, readable |-> FALSE, startPageToken |-> NoToken,
     last_full_scan_timestamp |-> 0]

\* A reader that takes the values of the file without a look at its condition.
load_state_unchecked(file) == file

\* load_state: {} when the file is missing or json.load raises, so that
\* state.get("startPageToken") is None and the timestamp is 0.
load_state(file) == IF file.present /\ file.readable THEN file ELSE NoState

\* What load_state met.
StateRead(file) ==
    IF ~file.present THEN "missing" ELSE IF ~file.readable THEN "corrupt" ELSE "ok"

\* What a step that does not load the state and does not read the feed has read.
NoRead ==
    [state_read |-> "none", drive_change |-> FALSE, incomplete |-> FALSE,
     overridden |-> {}, meta_failed |-> FALSE]

RECURSIVE LatestOf(_)
LatestOf(ids) ==
    IF ids = <<>> THEN <<>>
    ELSE IF Head(ids) \in Range(Tail(ids)) THEN LatestOf(Tail(ids))
    ELSE <<Head(ids)>> \o LatestOf(Tail(ids))

\* The changes of list_changes: changes(changeType,fileId,removed,file(parents,
\* name,mimeType)). A change whose file data is not delivered is incomplete. The
\* entry Root of the log is a change of the shared drive's own properties.
ChangeRecord(tree, id, fault) ==
    IF id = Root
    THEN [changeType |-> "drive", fileId |-> Root, removed |-> FALSE, complete |-> TRUE,
          name |-> RootName, folder |-> TRUE]
    ELSE [changeType |-> "file",
          fileId |-> id,
          removed |-> ~Live(tree, id),
          complete |-> fault /= <<"incomplete", id>>,
          name |-> tree[id].name,
          folder |-> tree[id].folder]

\* The name drive_scan.jsonl, which no item of remote_tree has.
ScanFileName == NumNames + 2

\* The ids of the drive_scan.jsonl files that upload_file creates, one after the
\* other, when the upload folder lies on the tracked drive: the entries of the log
\* above the item ids. A file is entered when it is created and once more when it
\* is deleted.
IsScanFile(id) == id > NumItems

\* The change that the feed reports for such a file: with the file's data while
\* the file exists, removed and without data after its deletion.
ScanFileChange(log, id) ==
    LET deleted == Cardinality({j \in DOMAIN log : log[j] = id}) >= 2
    IN  [changeType |-> "file", fileId |-> id, removed |-> deleted, complete |-> TRUE,
         name |-> IF deleted THEN 0 ELSE ScanFileName, folder |-> FALSE]

list_changes(tree, log, page_token, fault) ==
    LET ids == LatestOf(SubSeq(log, page_token + 1, Len(log)))
    IN  [i \in DOMAIN ids |-> IF IsScanFile(ids[i]) THEN ScanFileChange(log, ids[i])
                               ELSE ChangeRecord(tree, ids[i], fault)]

\* A feed that reports every entry of the log on its own, in the order of the log,
\* instead of the latest state of each item once. An item that is gone has a
\* removed change as its last record; the records before it are updates, whose
\* file data are as far as the drive still has them.
list_changes_each(tree, log, page_token, fault) ==
    LET ids == SubSeq(log, page_token + 1, Len(log))
    IN  [i \in DOMAIN ids |->
            IF \E j \in DOMAIN ids : j > i /\ ids[j] = ids[i] /\ ids[i] /= Root
            THEN [ChangeRecord(tree, ids[i], fault) EXCEPT !.removed = FALSE]
            ELSE ChangeRecord(tree, ids[i], fault)]

\* The items of a batch that have an update and, later in the batch, a removed
\* change.
Overridden(changes) ==
    {id \in ItemIds :
        \E i, j \in DOMAIN changes :
            /\ i < j
            /\ changes[i].fileId = id /\ changes[i].changeType = "file"
            /\ ~changes[i].removed
            /\ changes[j].fileId = id /\ changes[j].changeType = "file"
            /\ changes[j].removed}

\* A main that drops no change: every change of the feed goes to the patch.
every_change_relevant(changes) == changes

\* main, lines 348-359: the changes of the drive's properties are dropped, and
\* the changes whose file data have the name drive_scan.jsonl; a removed change
\* has no file data. No item has the name matching_results.json.
relevant_changes(changes) ==
    SelectSeq(changes, LAMBDA c : /\ c.changeType /= "drive"
                                  /\ ~(~c.removed /\ c.name = ScanFileName))

(***************************************************************************)
(* upload_file: the existing drive_scan.jsonl is deleted, then the new one *)
(* is posted; an exception of either request is logged and swallowed. The  *)
(* search for the existing file answers (lines 115-117).                   *)
(***************************************************************************)
upload_file(existing, content, fault) ==
    IF fault = <<"upload_delete">> /\ existing /= <<>>
    THEN [remote |-> existing, upload |-> "failed"]
    ELSE IF fault = <<"upload_post">>
    THEN [remote |-> <<>>, upload |-> "failed"]
    ELSE [remote |-> content, upload |-> "ok"]

\* The folders whose listing a scan from root_folder_id requests.
ScannedFolders(tree, root_folder_id) ==
    {root_folder_id} \cup
    {id \in ItemIds : Live(tree, id) /\ tree[id].folder /\ root_folder_id \in Ancestors(tree, id)}

ListFaultIn(tree, root_folder_id, fault) ==
    /\ fault[1] = "list"
    /\ fault[2] \in ScannedFolders(tree, root_folder_id)
    /\ ListFaultFires(tree, fault[2], fault)

(***************************************************************************)
(* run_full_scan_workflow. The result tells what it returned, the local    *)
(* and the uploaded drive_scan.jsonl after it, and what happened.          *)
(***************************************************************************)
run_full_scan_workflow(tree, local, remote, listing, sched, fault) ==
    IF fault = <<"root_meta">>
    THEN [ok |-> FALSE, local |-> local, remote |-> remote, upload |-> "none",
          list_failed |-> FALSE]
    ELSE LET scan_results == FullScanFile(tree, listing, sched, fault)
             up == IF fault = <<"find_folder">>
                   THEN [remote |-> remote, upload |-> "failed"]
                   ELSE upload_file(remote, scan_results, fault)
         IN  [ok |-> TRUE, local |-> scan_results, remote |-> up.remote,
              upload |-> up.upload, list_failed |-> ListFaultIn(tree, Root, fault)]

(***************************************************************************)
(* run_patch_workflow. cache_by_id and folders_to_rescan are dicts, which  *)
(* keep the order of insertion: sequences of [key, rec].                   *)
(***************************************************************************)
HasKey(d, k) == \E i \in DOMAIN d : d[i].key = k

DictSet(d, k, rec) ==
    IF HasKey(d, k)
    THEN [i \in DOMAIN d |-> IF d[i].key = k THEN [key |-> k, rec |-> rec] ELSE d[i]]
    ELSE Append(d, [key |-> k, rec |-> rec])

DictDel(d, k) == SelectSeq(d, LAMBDA e : e.key /= k)

RECURSIVE DictSetAll(_, _)
DictSetAll(d, records) ==
    IF records = <<>> THEN d
    ELSE DictSetAll(DictSet(d, Head(records).id, Head(records)), Tail(records))

DictValues(d) == [i \in DOMAIN d |-> d[i].rec]

\* p.startswith(q + "/")
StartsWithSlash(p, q) == Len(p) > Len(q) /\ SubSeq(p, 1, Len(q)) = q

\* get_item_metadata answers for the root and for the live items only.
HasMetadata(tree, id) == id = Root \/ Live(tree, id)

\* The request of get_item_metadata that fails is the one for fault[2]: the fetch
\* for the item of a change or for one of the folders above it (lines 191, 195).
MetaFails(tree, item_id, fault) ==
    /\ fault[1] = "meta"
    /\ fault[2] \in {item_id} \cup Ancestors(tree, item_id)

\* The parents above an item lead to the root. When they form a cycle instead,
\* get_full_path calls itself (line 195) until Python raises RecursionError.
ReachesRoot(tree, item_id) == item_id = Root \/ Root \in Ancestors(tree, item_id)

\* get_full_path raises when an item on the way up has no metadata, and when the
\* way up does not end.
Resolves(tree, item_id) ==
    /\ HasMetadata(tree, item_id)
    /\ \A a \in Ancestors(tree, item_id) : HasMetadata(tree, a)
    /\ ReachesRoot(tree, item_id)

\* get_full_path. path_cache holds the root and what this patch has resolved, and
\* the tree does not change during a patch: a cached path is the resolved path.
RECURSIVE get_full_path(_, _, _)
get_full_path(tree, item_id, root_name) ==
    IF item_id = Root THEN <<root_name>>
    ELSE IF tree[item_id].parent = Root THEN <<root_name, tree[item_id].name>>
    ELSE Append(get_full_path(tree, tree[item_id].parent, root_name), tree[item_id].name)

\* The name used when the cache has no record of the root: "ROOT".
FallbackRootName == NumNames + 1

\* The record that line 283 stores for a change: the change's file data, the path
\* and the indent.
PatchedRecord(change, new_path) ==
    [id |-> NoId, name |-> change.name, folder |-> change.folder,
     fields |-> PatchedFields, path |-> new_path, indent |-> (Len(new_path) - 1) - 1]

\* A loop that deletes the records of all removed changes first and then stores
\* a record for every other change, with the path made of what the drive holds.
ApplyChangesRemovedFirst(tree, changes, cache_by_id, folders_to_rescan, root_name, fault) ==
    LET RECURSIVE Del(_, _)
        Del(cs, d) == IF cs = <<>> THEN d
                      ELSE Del(Tail(cs), DictDel(d, Head(cs).fileId))
        RECURSIVE Put(_, _)
        Put(cs, d) == IF cs = <<>> THEN d
                      ELSE Put(Tail(cs),
                               DictSet(d, Head(cs).fileId,
                                       PatchedRecord(Head(cs),
                                                     get_full_path(tree, Head(cs).fileId,
                                                                   root_name))))
    IN  [raised |-> FALSE, reason |-> "none", rest |-> <<>>,
         cache_by_id |-> Put(SelectSeq(changes, LAMBDA c : ~c.removed),
                             Del(SelectSeq(changes, LAMBDA c : c.removed), cache_by_id)),
         folders_to_rescan |-> folders_to_rescan]

\* The loop of lines 256-283 with line 270 changed: a change with incomplete data
\* is skipped and the loop goes on.
RECURSIVE ApplyChangesSkipIncomplete(_, _, _, _, _, _)
ApplyChangesSkipIncomplete(tree, changes, cache_by_id, folders_to_rescan, root_name, fault) ==
    IF changes = <<>>
    THEN [raised |-> FALSE, reason |-> "none", rest |-> <<>>, cache_by_id |-> cache_by_id,
          folders_to_rescan |-> folders_to_rescan]
    ELSE LET change == Head(changes)
             file_id == change.fileId
         IN  IF change.changeType = "drive"
             THEN [raised |-> TRUE, reason |-> "drive", rest |-> changes,
                   cache_by_id |-> cache_by_id, folders_to_rescan |-> folders_to_rescan]
             ELSE IF change.removed
             THEN ApplyChangesSkipIncomplete(tree, Tail(changes),
                                             DictDel(cache_by_id, file_id),
                                             folders_to_rescan, root_name, fault)
             ELSE IF ~change.complete
             THEN ApplyChangesSkipIncomplete(tree, Tail(changes), cache_by_id,
                                             folders_to_rescan, root_name, fault)
             ELSE IF MetaFails(tree, file_id, fault) \/ ~Resolves(tree, file_id)
             THEN [raised |-> TRUE, reason |-> "exception", rest |-> changes,
                   cache_by_id |-> cache_by_id, folders_to_rescan |-> folders_to_rescan]
             ELSE LET new_path == get_full_path(tree, file_id, root_name)
                      rec == PatchedRecord(change, new_path)
                  IN  ApplyChangesSkipIncomplete(
                          tree, Tail(changes), DictSet(cache_by_id, file_id, rec),
                          IF change.folder
                          THEN DictSet(folders_to_rescan, file_id,
                                       [path |-> new_path, indent |-> rec.indent])
                          ELSE folders_to_rescan,
                          root_name, fault)

\* The loop of lines 256-283 with a get_full_path that does not raise when a
\* metadata fetch fails: it answers the root's name and the name of the change,
\* and the loop stores the record and goes on.
RECURSIVE ApplyChangesPartialPath(_, _, _, _, _, _)
ApplyChangesPartialPath(tree, changes, cache_by_id, folders_to_rescan, root_name, fault) ==
    IF changes = <<>>
    THEN [raised |-> FALSE, reason |-> "none", rest |-> <<>>, cache_by_id |-> cache_by_id,
          folders_to_rescan |-> folders_to_rescan]
    ELSE LET change == Head(changes)
             file_id == change.fileId
         IN  IF change.changeType = "drive"
             THEN [raised |-> TRUE, reason |-> "drive", rest |-> changes,
                   cache_by_id |-> cache_by_id, folders_to_rescan |-> folders_to_rescan]
             ELSE IF change.removed
             THEN ApplyChangesPartialPath(tree, Tail(changes),
                                          DictDel(cache_by_id, file_id),
                                          folders_to_rescan, root_name, fault)
             ELSE IF ~change.complete
             THEN [raised |-> TRUE, reason |-> "incomplete", rest |-> changes,
                   cache_by_id |-> cache_by_id, folders_to_rescan |-> folders_to_rescan]
             ELSE LET new_path == IF MetaFails(tree, file_id, fault)
                                     \/ ~Resolves(tree, file_id)
                                  THEN <<root_name, change.name>>
                                  ELSE get_full_path(tree, file_id, root_name)
                      rec == PatchedRecord(change, new_path)
                  IN  ApplyChangesPartialPath(
                          tree, Tail(changes), DictSet(cache_by_id, file_id, rec),
                          IF change.folder
                          THEN DictSet(folders_to_rescan, file_id,
                                       [path |-> new_path, indent |-> rec.indent])
                          ELSE folders_to_rescan,
                          root_name, fault)

\* Lines 256-283: the changes in the order received. `raised` tells that the loop
\* left for the full scan, `reason` why (a change of the drive, line 257; incomplete
\* data, line 270; an exception of get_full_path, caught at line 308) and `rest`
\* the changes it had not applied.
RECURSIVE ApplyChanges(_, _, _, _, _, _)
ApplyChanges(tree, changes, cache_by_id, folders_to_rescan, root_name, fault) ==
    IF changes = <<>>
    THEN [raised |-> FALSE, reason |-> "none", rest |-> <<>>, cache_by_id |-> cache_by_id,
          folders_to_rescan |-> folders_to_rescan]
    ELSE LET change == Head(changes)
             file_id == change.fileId
         IN  IF change.changeType = "drive"
             THEN [raised |-> TRUE, reason |-> "drive", rest |-> changes,
                   cache_by_id |-> cache_by_id, folders_to_rescan |-> folders_to_rescan]
             ELSE IF change.removed
             THEN ApplyChanges(tree, Tail(changes), DictDel(cache_by_id, file_id),
                               folders_to_rescan, root_name, fault)
             ELSE IF ~change.complete
             THEN [raised |-> TRUE, reason |-> "incomplete", rest |-> changes,
                   cache_by_id |-> cache_by_id, folders_to_rescan |-> folders_to_rescan]
             ELSE IF MetaFails(tree, file_id, fault) \/ ~Resolves(tree, file_id)
             THEN [raised |-> TRUE, reason |-> "exception", rest |-> changes,
                   cache_by_id |-> cache_by_id, folders_to_rescan |-> folders_to_rescan]
             ELSE LET new_path == get_full_path(tree, file_id, root_name)
                      rec == PatchedRecord(change, new_path)
                      new_indent == rec.indent
                  IN  ApplyChanges(tree, Tail(changes), DictSet(cache_by_id, file_id, rec),
                                   IF change.folder
                                   THEN DictSet(folders_to_rescan, file_id,
                                                [path |-> new_path, indent |-> new_indent])
                                   ELSE folders_to_rescan,
                                   root_name, fault)

\* Lines 285-293 left out: no record is dropped and no folder is scanned again.
RescanFoldersNot(tree, folders_to_rescan, cache_by_id, scan_cache, listing, sched, fault) ==
    cache_by_id

\* Lines 285-293: the cached records under a folder's old path are dropped and the
\* folder is scanned again.
RECURSIVE RescanFolders(_, _, _, _, _, _, _)
RescanFolders(tree, folders_to_rescan, cache_by_id, scan_cache, listing, sched, fault) ==
    IF folders_to_rescan = <<>> THEN cache_by_id
    ELSE LET folder_id == Head(folders_to_rescan).key
             new == Head(folders_to_rescan).rec
             old == SelectSeq(scan_cache, LAMBDA r : r.id = folder_id)
             kept == IF old /= <<>>
                     THEN SelectSeq(cache_by_id,
                                    LAMBDA e : ~StartsWithSlash(e.rec.path, old[1].path))
                     ELSE cache_by_id
             scanned == _perform_scan(tree, folder_id, new.path, new.indent,
                                      listing, sched, fault)
         IN  RescanFolders(tree, Tail(folders_to_rescan), DictSetAll(kept, scanned),
                           scan_cache, listing, sched, fault)

\* The folders of folders_to_rescan that the cache has under another path
\* (old_path of line 287 is not the new path): the folders moved or renamed.
MovedFolders(folders_to_rescan, scan_cache) ==
    {e.key : e \in {x \in Range(folders_to_rescan) :
                       \E i \in DOMAIN scan_cache :
                           scan_cache[i].id = x.key /\ scan_cache[i].path /= x.rec.path}}

run_patch_workflow(tree, changes, local, remote, listing, sched, fault) ==
    LET downloaded == IF fault = <<"download">> THEN local ELSE remote
        scan_cache == downloaded
        cache_by_id == [i \in DOMAIN scan_cache |->
                           [key |-> scan_cache[i].id, rec |-> scan_cache[i]]]
        root_records == SelectSeq(scan_cache, LAMBDA r : r.id = Root)
        root_name == IF root_records /= <<>> THEN root_records[1].name
                     ELSE FallbackRootName
        applied == ApplyChanges(tree, changes, cache_by_id, <<>>, root_name, fault)
        \* Lines 234-247: no upload folder, no drive_scan.jsonl, no file to open, or a
        \* record without 'id'.
        no_cache == \/ fault = <<"find_folder_patch">>
                    \/ fault = <<"find_file">>
                    \/ remote = <<>>
        unreadable == \/ downloaded = <<>>
                      \/ \E i \in DOMAIN scan_cache : "id" \notin scan_cache[i].fields
    IN  IF no_cache
        THEN [workflow |-> "fallback", fallback |-> "no_cache", applied |-> 0,
              moved |-> {}] @@
             run_full_scan_workflow(tree, local, remote, listing, sched, fault)
        ELSE IF unreadable
        THEN [workflow |-> "fallback", fallback |-> "exception", applied |-> 0,
              moved |-> {}] @@
             run_full_scan_workflow(tree, downloaded, remote, listing, sched, fault)
        ELSE IF applied.raised
        THEN [workflow |-> "fallback", fallback |-> applied.reason,
              applied |-> Len(changes) - Len(applied.rest), moved |-> {}] @@
             run_full_scan_workflow(tree, downloaded, remote, listing, sched, fault)
        ELSE LET rescanned == RescanFolders(tree, applied.folders_to_rescan,
                                            applied.cache_by_id, scan_cache,
                                            listing, sched, fault)
                 updated_scan_list == SortByPath(DictValues(rescanned))
                 up == upload_file(remote, updated_scan_list, fault)
             IN  [workflow |-> "patch", fallback |-> "none", applied |-> Len(changes),
                  moved |-> MovedFolders(applied.folders_to_rescan, scan_cache),
                  ok |-> TRUE, local |-> updated_scan_list,
                  remote |-> up.remote, upload |-> up.upload,
                  list_failed |-> \E e \in Range(applied.folders_to_rescan) :
                                      ListFaultIn(tree, e.key, fault)]

(***************************************************************************)
(* The states in which main and the planner have not run yet.              *)
(***************************************************************************)
NoEvent ==
    [kind |-> "none", workflow |-> "none", ok |-> TRUE,
     upload |-> "none", list_failed |-> FALSE, in_sync |-> FALSE,
     cache_written |-> FALSE, token_saved |-> FALSE,
     fallback |-> "none", applied |-> 0, moved |-> {}, state_read |-> "none",
     drive_change |-> FALSE, incomplete |-> FALSE, overridden |-> {},
     meta_failed |-> FALSE]

ListenerState ==
    /\ remote_scan = <<>>
    /\ local_scan = <<>>
    /\ state_file = NoState
    /\ pc = "boot"
    /\ last_token = NoToken
    /\ last_scan_timestamp = 0
    /\ now = 0
    /\ faults_left = 0
    /\ sync_token = NoToken
    /\ event = NoEvent

ListenerNotStarted ==
    /\ remote_tree = [i \in ItemIds |-> Unborn]
    /\ change_log = <<>>
    /\ ListenerState

PlannerNotStarted ==
    /\ client_files = [i \in TaskIds |-> NoFile]
    /\ plan_file = NoPlan
    /\ plan_last_run_file = NoPlan
    /\ runs = 0

(***************************************************************************)
(* The planner's state machine: the client's files change one at a time    *)
(* and every run plans the current files against the plan of the run       *)
(* before (main, lines 447-492).                                           *)
(***************************************************************************)
PlannerInit ==
    /\ client_files \in [TaskIds -> FileRecs \cup {NoFile}]
    /\ plan_file = NoPlan
    /\ plan_last_run_file = NoPlan
    /\ runs = 0
    /\ scan_runs = <<>>
    /\ scanning = NoScan
    /\ ListenerNotStarted

\* main, lines 470-492: plan the client's files against the plan of the run before,
\* upload the new plan and keep the old one as <client>_plan_last_run.json.
RunPlannerWithin(files, max_runs) ==
    /\ runs < max_runs
    /\ runs' = runs + 1
    /\ LET processing_tasks == ProcessingTasks(files)
           last_run_plan == plan_file
       IN  \E order \in PlacementOrders(TasksToPlace(processing_tasks, last_run_plan),
                                        processing_tasks) :
            /\ plan_file' = [present |-> TRUE,
                             processing_tasks |-> processing_tasks,
                             concatenation_plan |->
                                 plan_concatenation(processing_tasks, last_run_plan, order)]
            /\ plan_last_run_file' = plan_file
            /\ client_files' = files
            /\ UNCHANGED <<scan_runs, scanning, drive_vars, listener_vars>>

RunPlannerOn(files) == RunPlannerWithin(files, MaxRuns)

\* A run on the files as they are (the first run, or a run after nothing changed).
RunPlanner == RunPlannerOn(client_files)

\* A run after one file was created in the client's folders.
FileCreated(id, rec) ==
    /\ plan_file.present
    /\ client_files[id] = NoFile
    /\ RunPlannerOn([client_files EXCEPT ![id] = rec])

\* A run after one file changed its size or its type.
FileChanged(id, rec) ==
    /\ plan_file.present
    /\ client_files[id] /= NoFile
    /\ client_files[id] /= rec
    /\ RunPlannerOn([client_files EXCEPT ![id] = rec])

\* A run after one file was deleted.
FileDeleted(id) ==
    /\ plan_file.present
    /\ client_files[id] /= NoFile
    /\ RunPlannerOn([client_files EXCEPT ![id] = NoFile])

PlannerNext ==
    \/ RunPlanner
    \/ \E id \in TaskIds, rec \in FileRecs : FileCreated(id, rec)
    \/ \E id \in TaskIds, rec \in FileRecs : FileChanged(id, rec)
    \/ \E id \in TaskIds : FileDeleted(id)

SpecPlanner == PlannerInit /\ [][PlannerNext]_vars

(***************************************************************************)
(* SpecReplan: a longer history of runs over pdf files of two sizes, each  *)
(* run after one file was created or deleted, so that batches are closed   *)
(* and opened again over the runs.                                         *)
(***************************************************************************)
MaxReplans == 6

ReplanRecs == [mimeType : {"application/pdf"}, size : {4, 6}]

ReplanInit ==
    /\ client_files \in [TaskIds -> ReplanRecs \cup {NoFile}]
    /\ plan_file = NoPlan
    /\ plan_last_run_file = NoPlan
    /\ runs = 0
    /\ scan_runs = <<>>
    /\ scanning = NoScan
    /\ ListenerNotStarted

\* The first run of the planner for the client.
FirstRun ==
    /\ ~plan_file.present
    /\ RunPlannerWithin(client_files, MaxReplans)

\* A later run after one file was created.
RunAfterCreate(id, rec) ==
    /\ plan_file.present
    /\ client_files[id] = NoFile
    /\ RunPlannerWithin([client_files EXCEPT ![id] = rec], MaxReplans)

\* A later run after one file was deleted.
RunAfterDelete(id) ==
    /\ plan_file.present
    /\ client_files[id] /= NoFile
    /\ RunPlannerWithin([client_files EXCEPT ![id] = NoFile], MaxReplans)

ReplanNext ==
    \/ FirstRun
    \/ \E id \in TaskIds, rec \in ReplanRecs : RunAfterCreate(id, rec)
    \/ \E id \in TaskIds : RunAfterDelete(id)

SpecReplan == ReplanInit /\ [][ReplanNext]_vars

(***************************************************************************)
(* SpecScan: full scans of one unchanged remote tree, no request failing,  *)
(* each with its own order of the listings and of the workers.             *)
(***************************************************************************)
MaxScans == 2

\* The trees to scan: ids are given out in order and a parent is older than its
\* child, which covers every shape of tree.
ScanTrees ==
    {t \in [ItemIds -> LiveItems \cup {Unborn}] :
        /\ WellFormed(t)
        /\ \A id \in ItemIds : Live(t, id) =>
               /\ t[id].parent < id
               /\ \A j \in 1..(id - 1) : Live(t, j)}

ScanInit ==
    /\ remote_tree \in ScanTrees
    /\ scan_runs = <<>>
    /\ scanning = NoScan
    /\ change_log = <<>>
    /\ ListenerState
    /\ PlannerNotStarted

FullScanRun(listing, sched) ==
    /\ Len(scan_runs) < MaxScans
    /\ LET scan_results == FullScanResults(remote_tree, listing, sched, NoFault)
       IN  scan_runs' = Append(scan_runs, [scan_results |-> scan_results,
                                           file |-> SortByPath(scan_results)])
    /\ UNCHANGED <<planner_vars, drive_vars, listener_vars, scanning>>

ScanNext == \E listing \in Perms(ItemIds) : \E sched \in WorkerOrders(listing) : FullScanRun(listing, sched)

SpecScan == ScanInit /\ [][ScanNext]_vars

(***************************************************************************)
(* Specification Spec: drive_listener.py's main against a shared drive     *)
(* whose items are created, renamed, moved and removed while it runs.      *)
(* A start or a cycle of main is one step, and no request fails.           *)
(***************************************************************************)
IdentityOrder == [i \in ItemIds |-> i]

\* The orders of the listings and of the workers in the scans of Spec.
ScanOrders == {IdentityOrder, Reverse(IdentityOrder)}

\* The drive_scan.jsonl of a full scan of the tree in which no request fails.
CleanFullScan(tree) == FullScanFile(tree, IdentityOrder, IdentityOrder, NoFault)

Faults ==
    {NoFault, <<"changes">>, <<"token">>, <<"root_meta">>, <<"find_folder_patch">>,
     <<"find_folder">>, <<"find_file">>, <<"download">>,
     <<"upload_delete">>, <<"upload_post">>}
    \cup {<<"meta", id>> : id \in ItemIds}
    \cup {<<"list", f, p>> : f \in {Root} \cup ItemIds, p \in 1..NumPages(NumItems)}
    \cup {<<"incomplete", id>> : id \in ItemIds}

\* The faults that can show in the current state: a listing that is requested, a
\* change that is pending.
PossibleFaults ==
    {f \in Faults :
        /\ f[1] = "list" => ListFaultIn(remote_tree, Root, f)
        /\ f[1] = "incomplete" => Live(remote_tree, f[2]) /\ f[2] \in Range(change_log)
        /\ f[1] = "meta" =>
               \E c \in Range(change_log) \ {Root} :
                   Live(remote_tree, c) /\ MetaFails(remote_tree, c, f)}

DriveInit ==
    /\ ListenerNotStarted
    /\ PlannerNotStarted
    /\ scan_runs = <<>>
    /\ scanning = NoScan

RemoteEvent == [NoEvent EXCEPT !.kind = "remote"]

NameFree(tree, parent, name) ==
    \A id \in ChildrenOf(tree, parent) : tree[id].name /= name

Descendants(tree, id) == {d \in ItemIds : Live(tree, d) /\ id \in Ancestors(tree, d)}

Changed(ids) ==
    /\ Len(change_log) + Len(ids) <= MaxChanges
    /\ change_log' = change_log \o ids
    /\ event' = RemoteEvent
    /\ UNCHANGED <<remote_scan, local_scan, state_file, pc, last_token,
                   last_scan_timestamp, now, faults_left, sync_token, planner_vars,
                   scan_runs, scanning>>

CreateItem(name, parent, folder) ==
    LET born == {id \in ItemIds : remote_tree[id] /= Unborn}
        id == Cardinality(born) + 1
    IN  /\ Cardinality(born) < MaxCreated
        /\ IsFolder(remote_tree, parent)
        /\ NameFree(remote_tree, parent, name)
        /\ remote_tree' = [remote_tree EXCEPT ![id] =
               [state |-> "live", name |-> name, parent |-> parent, folder |-> folder]]
        /\ Changed(<<id>>)

RenameItem(id, name) ==
    /\ Live(remote_tree, id)
    /\ remote_tree[id].name /= name
    /\ NameFree(remote_tree, remote_tree[id].parent, name)
    /\ remote_tree' = [remote_tree EXCEPT ![id].name = name]
    /\ Changed(<<id>>)

MoveItem(id, parent) ==
    /\ Live(remote_tree, id)
    /\ IsFolder(remote_tree, parent)
    /\ parent /= remote_tree[id].parent
    /\ parent /= id
    /\ parent \notin Descendants(remote_tree, id)
    /\ NameFree(remote_tree, parent, remote_tree[id].name)
    /\ remote_tree' = [remote_tree EXCEPT ![id].parent = parent]
    /\ Changed(<<id>>)

\* An item is removed with everything under it. The feed reports the item; it
\* reports the items under it or not (announced).
RemoveItem(id, announced) ==
    /\ Live(remote_tree, id)
    /\ LET below == Descendants(remote_tree, id)
       IN  /\ remote_tree' = [i \in ItemIds |->
                                 IF i = id \/ i \in below THEN Gone ELSE remote_tree[i]]
           /\ Changed(IF announced THEN InOrder(below, IdentityOrder) \o <<id>>
                      ELSE <<id>>)

\* get_start_page_token on a feed whose log is `log`.
TokenAt(log, fault) == IF fault = <<"token">> THEN NoToken ELSE Len(log)

get_start_page_token(fault) == TokenAt(change_log, fault)

\* The log after the workflow that returned r. With the upload folder on the
\* tracked drive (tracked), upload_file's delete of the existing drive_scan.jsonl
\* and its post of the new one (lines 117-123) are changes of that drive.
OwnWrites(r, tracked) ==
    LET own == {change_log[j] : j \in {k \in DOMAIN change_log : IsScanFile(change_log[k])}}
        current == CHOOSE id \in own : \A o \in own : o <= id
        new_id == IF own = {} THEN NumItems + 1 ELSE current + 1
        deleted == /\ remote_scan /= <<>>
                   /\ own /= {}
                   /\ \/ r.upload = "ok"
                      \/ r.upload = "failed" /\ r.remote = <<>>
    IN  IF ~tracked THEN change_log
        ELSE change_log \o (IF deleted THEN <<current>> ELSE <<>>)
                        \o (IF r.upload = "ok" THEN <<new_id>> ELSE <<>>)

save_state(token, timestamp) ==
    [present |-> TRUE, readable |-> TRUE, startPageToken |-> token,
     last_full_scan_timestamp |-> timestamp]

\* Whether the uploaded cache is a full scan of the tree as it is now, as it was at
\* sync_token, or of no known tree.
SyncAfter(remote) ==
    IF remote = CleanFullScan(remote_tree) THEN Len(change_log)
    ELSE IF remote = remote_scan THEN sync_token
    ELSE NoToken

StepOn(kind, r, token, timestamp, state, in_sync, read, log) ==
    /\ remote_scan' = r.remote
    /\ local_scan' = r.local
    /\ last_token' = token
    /\ last_scan_timestamp' = timestamp
    /\ state_file' = state
    /\ sync_token' = SyncAfter(r.remote)
    /\ event' = [kind |-> kind, workflow |-> r.workflow, ok |-> r.ok,
                 upload |-> r.upload, list_failed |-> r.list_failed, in_sync |-> in_sync,
                 cache_written |-> r.remote /= remote_scan,
                 token_saved |-> state.startPageToken /= state_file.startPageToken,
                 fallback |-> r.fallback, applied |-> r.applied, moved |-> r.moved,
                 state_read |-> read.state_read, drive_change |-> read.drive_change,
                 incomplete |-> read.incomplete, overridden |-> read.overridden,
                 meta_failed |-> read.meta_failed]
    /\ change_log' = log
    /\ UNCHANGED <<remote_tree, planner_vars, scan_runs, scanning>>

\* A step of main with the upload folder on another drive than the tracked one.
Step(kind, r, token, timestamp, state, in_sync, read) ==
    StepOn(kind, r, token, timestamp, state, in_sync, read, change_log)

\* What a step that runs no workflow leaves behind.
NoWorkflow(workflow) ==
    [workflow |-> workflow, fallback |-> "none", applied |-> 0, moved |-> {},
     ok |-> TRUE, local |-> local_scan, remote |-> remote_scan, upload |-> "none",
     list_failed |-> FALSE]

\* A full scan that main runs itself, as `workflow`.
FullScanAs(workflow, listing, sched, fault) ==
    [workflow |-> workflow, fallback |-> "none", applied |-> 0, moved |-> {}] @@
    run_full_scan_workflow(remote_tree, local_scan, remote_scan, listing, sched, fault)

\* A step of main in which a request fails takes one of the faults left.
Faulty(fault) ==
    /\ fault /= NoFault => faults_left > 0
    /\ faults_left' = IF fault = NoFault THEN faults_left ELSE faults_left - 1

\* main, lines 317-329: the state is loaded; without a token the initial workflow
\* runs and main returns if it fails.
MainStartIn(listing, sched, fault, tracked) ==
    /\ pc = "boot"
    /\ Faulty(fault)
    /\ LET state == load_state(state_file)
           read == [NoRead EXCEPT !.state_read = StateRead(state_file)]
       IN  IF state.startPageToken = NoToken
           THEN \E r \in {FullScanAs("initial", listing, sched, fault)} :
                LET token == TokenAt(OwnWrites(r, tracked), fault)
                IN  IF r.ok
                    THEN /\ pc' = "loop"
                         /\ StepOn("start", r, token, now,
                                   IF token /= NoToken THEN save_state(token, now)
                                   ELSE state_file, FALSE, read,
                                   OwnWrites(r, tracked))
                    ELSE /\ pc' = "exited"
                         /\ Step("start", r, state.startPageToken,
                                 state.last_full_scan_timestamp, state_file, FALSE, read)
           ELSE /\ pc' = "loop"
                /\ Step("start", NoWorkflow("none"), state.startPageToken,
                        state.last_full_scan_timestamp, state_file, FALSE, read)
    /\ now' = now

MainStart(listing, sched, fault) == MainStartIn(listing, sched, fault, FALSE)

\* A main that takes the new token whatever the patch workflow returned.
TokenAlwaysNew(ok, new_token, old_token) == new_token

\* main, lines 363-366: the token after run_patch_workflow returned `ok`.
TokenAfterPatch(ok, new_token, old_token) == IF ok THEN new_token ELSE old_token

\* A main without the scheduled full scan.
RescanNever == FALSE

\* Whether the next turn of main's loop runs the scheduled full scan (line 334).
RescanDue == (now - last_scan_timestamp) > RescanTicks

\* main, lines 331-376: one turn of the loop and the sleep after it. Without a
\* token the request for the changes is refused.
MainCycleIn(listing, sched, fault, each, tracked) ==
    /\ pc = "loop"
    /\ now < MaxTime
    /\ Faulty(fault)
    /\ now' = now + 1
    /\ pc' = pc
    /\ IF RescanDue
       THEN \E r \in {FullScanAs("rescan", listing, sched, fault)} :
            LET token == IF r.ok THEN TokenAt(OwnWrites(r, tracked), fault)
                         ELSE last_token
                timestamp == IF r.ok THEN now ELSE last_scan_timestamp
            IN  StepOn("cycle", r, token, timestamp, save_state(token, timestamp),
                       FALSE, NoRead, OwnWrites(r, tracked))
       ELSE IF fault = <<"changes">> \/ last_token = NoToken
       THEN Step("cycle", NoWorkflow("no_answer"), last_token,
                 last_scan_timestamp, state_file, FALSE, NoRead)
       ELSE LET changes == IF each
                           THEN list_changes_each(remote_tree, change_log, last_token,
                                                  fault)
                           ELSE list_changes(remote_tree, change_log, last_token, fault)
                new_token == Len(change_log)
                relevant == relevant_changes(changes)
                read == [NoRead EXCEPT
                            !.drive_change =
                                \E i \in DOMAIN changes : changes[i].changeType = "drive",
                            !.incomplete =
                                \E i \in DOMAIN relevant :
                                    ~relevant[i].removed /\ ~relevant[i].complete,
                            !.overridden = Overridden(relevant),
                            !.meta_failed =
                                \E i \in DOMAIN relevant :
                                    /\ ~relevant[i].removed
                                    /\ MetaFails(remote_tree, relevant[i].fileId, fault)]
            IN  IF relevant = <<>>
                THEN Step("cycle",
                          NoWorkflow(IF changes = <<>> THEN "no_changes"
                                     ELSE "no_relevant"),
                          new_token, last_scan_timestamp,
                          save_state(new_token, last_scan_timestamp), FALSE, read)
                ELSE \E r \in {run_patch_workflow(remote_tree, relevant, local_scan,
                                                    remote_scan, listing, sched, fault)} :
                     LET token == TokenAfterPatch(r.ok, new_token, last_token)
                         in_sync == /\ sync_token /= NoToken
                                    /\ sync_token = last_token
                                    /\ fault = <<"download">> => local_scan = remote_scan
                     IN  StepOn("cycle", r, token, last_scan_timestamp,
                                save_state(token, last_scan_timestamp), in_sync, read,
                                OwnWrites(r, tracked))

\* A turn of the loop with the upload folder on another drive than the tracked one.
MainCycleOn(listing, sched, fault, each) ==
    MainCycleIn(listing, sched, fault, each, FALSE)

\* A turn of the loop on a feed that reports the latest state of each item once.
MainCycle(listing, sched, fault) == MainCycleOn(listing, sched, fault, FALSE)

\* A turn of the loop on a feed that reports every entry of the log.
MainCycleEach(listing, sched) == MainCycleOn(listing, sched, NoFault, TRUE)

\* The state file between two runs of main: left as it is, deleted, or damaged so
\* that json.load raises.
Damaged(file, damage) ==
    IF damage = "missing" THEN NoState
    ELSE IF damage = "corrupt" THEN [file EXCEPT !.readable = FALSE]
    ELSE file

\* The process is stopped and, a polling interval later, started again: main's
\* variables are lost, the files stay unless the state file is damaged.
Restart(damage) ==
    /\ pc \in {"loop", "exited"}
    /\ now < MaxTime
    /\ damage /= "none" => state_file.present /\ state_file.readable
    /\ now' = now + 1
    /\ pc' = "boot"
    /\ last_token' = NoToken
    /\ last_scan_timestamp' = 0
    /\ state_file' = Damaged(state_file, damage)
    /\ event' = [NoEvent EXCEPT !.kind = "restart"]
    /\ UNCHANGED <<remote_scan, local_scan, faults_left, sync_token,
                   drive_vars, planner_vars, scan_runs, scanning>>

\* A property of the shared drive itself is changed: the feed reports a change of
\* type 'drive'. The name of the drive stays.
DriveChanged ==
    /\ remote_tree' = remote_tree
    /\ Changed(<<Root>>)

DriveNext ==
    \/ \E name \in Names, parent \in {Root} \cup ItemIds, folder \in BOOLEAN :
           CreateItem(name, parent, folder)
    \/ \E id \in ItemIds, name \in Names : RenameItem(id, name)
    \/ \E id \in ItemIds, parent \in {Root} \cup ItemIds : MoveItem(id, parent)
    \/ \E id \in ItemIds, announced \in BOOLEAN : RemoveItem(id, announced)
    \/ DriveChanged

Next ==
    \/ DriveNext
    \/ \E listing \in ScanOrders : MainStart(listing, listing, NoFault)
    \/ \E listing \in ScanOrders : MainCycle(listing, listing, NoFault)
    \/ \E damage \in {"none", "missing", "corrupt"} : Restart(damage)

Spec == DriveInit /\ [][Next]_vars

(***************************************************************************)
(* Specification SpecBatch: no request fails and the process is not        *)
(* restarted; the feed reports every change on its own, so that one batch  *)
(* can hold several records of one item.                                   *)
(***************************************************************************)
BatchNext ==
    \/ DriveNext
    \/ \E listing \in ScanOrders : MainStart(listing, listing, NoFault)
    \/ \E listing \in ScanOrders : MainCycleEach(listing, listing)

SpecBatch == DriveInit /\ [][BatchNext]_vars

(***************************************************************************)
(* Specification SpecOwnWrites: no request fails and the process is not    *)
(* restarted; DRIVE_FOLDER_ID is the drive of NTBLM_DRIVE_ID, so the       *)
(* upload folder 3-NTBLM lies on the tracked drive and the feed of main    *)
(* reports what upload_file does to drive_scan.jsonl. The records of the   *)
(* upload folder and of the file are left out of the cache: remote_tree   *)
(* has the other items only.                                               *)
(***************************************************************************)
OwnWritesNext ==
    \/ DriveNext
    \/ \E listing \in ScanOrders : MainStartIn(listing, listing, NoFault, TRUE)
    \/ \E listing \in ScanOrders : MainCycleIn(listing, listing, NoFault, FALSE, TRUE)

SpecOwnWrites == DriveInit /\ [][OwnWritesNext]_vars

(***************************************************************************)
(* Specification SpecCycle: as Spec without restarts, on a drive whose     *)
(* metadata can come to name, as the parent of a folder, the folder itself *)
(* or a folder below it.                                                   *)
(***************************************************************************)
\* The parent of folder id becomes `parent`, which is id or lies below id: the
\* parents of id and of everything below it form a cycle and lead to the root no
\* more. The feed reports the change of id.
ParentCycle(id, parent) ==
    /\ Live(remote_tree, id)
    /\ remote_tree[id].folder
    /\ IsFolder(remote_tree, parent)
    /\ parent \in {id} \cup Descendants(remote_tree, id)
    /\ ReachesRoot(remote_tree, id)
    /\ remote_tree' = [remote_tree EXCEPT ![id].parent = parent]
    /\ Changed(<<id>>)

CycleNext ==
    \/ DriveNext
    \/ \E id \in ItemIds, parent \in ItemIds : ParentCycle(id, parent)
    \/ \E listing \in ScanOrders : MainStart(listing, listing, NoFault)
    \/ \E listing \in ScanOrders : MainCycle(listing, listing, NoFault)

SpecCycle == DriveInit /\ [][CycleNext]_vars

(***************************************************************************)
(* Specification SpecListing: the full scan of a cold start and of a       *)
(* scheduled rescan in its steps, with the drive changing between them:    *)
(* the root's metadata, one listing worker after the other, the write and  *)
(* upload of the cache, the request for the token. No request fails.       *)
(***************************************************************************)
\* A main that asks for the token before it calls run_full_scan_workflow.
TokenRequestedBefore == "before"

\* main, lines 323-324 and 336-337: get_start_page_token is called after
\* run_full_scan_workflow has returned.
TokenRequested == "after"

\* main enters run_full_scan_workflow, which reads the root's metadata (lines
\* 205-207).
EnterFullScan(workflow) ==
    /\ \/ /\ workflow = "initial"
          /\ pc = "boot"
          /\ load_state(state_file).startPageToken = NoToken
       \/ /\ workflow = "rescan"
          /\ pc = "loop"
          /\ now < MaxTime
          /\ RescanDue
    /\ pc' = "scan"
    /\ scanning' = [NoScan EXCEPT !.workflow = workflow,
                                  !.scan_results = <<RootRecord>>,
                                  !.token = IF TokenRequested = "before"
                                            THEN get_start_page_token(NoFault)
                                            ELSE NoToken]
    /\ event' = [NoEvent EXCEPT !.kind = "scan"]
    /\ UNCHANGED <<remote_scan, local_scan, state_file, last_token, last_scan_timestamp,
                   now, faults_left, sync_token, drive_vars, planner_vars, scan_runs>>

\* _perform_scan submits the worker of the root folder (lines 173-176).
BeginListing ==
    /\ pc = "scan"
    /\ scanning.started = NoToken
    /\ scanning' = [scanning EXCEPT
                       !.started = Len(change_log),
                       !.active_futures = {[id |-> Root, path |-> RootRecord.path,
                                            indent |-> -1]}]
    /\ event' = [NoEvent EXCEPT !.kind = "scan"]
    /\ UNCHANGED <<remote_scan, local_scan, state_file, pc, last_token,
                   last_scan_timestamp, now, faults_left, sync_token, drive_vars,
                   planner_vars, scan_runs>>

\* One worker completes (lines 177-186): its folder is listed as the drive is now,
\* its records are appended and a worker is submitted for each folder found.
WorkerDone(f, listing) ==
    /\ pc = "scan"
    /\ f \in scanning.active_futures
    /\ LET w == _scan_worker(remote_tree, f.id, f.path, f.indent + 1, listing, NoFault)
           submitted == {[id |-> r.id, path |-> r.path, indent |-> r.indent] :
                            r \in Range(w.folders)}
           left == (scanning.active_futures \ {f}) \cup submitted
       IN  scanning' = [scanning EXCEPT
                           !.active_futures = left,
                           !.scan_results = @ \o w.files \o w.folders,
                           !.ended = IF left = {} THEN Len(change_log) ELSE NoToken]
    /\ event' = [NoEvent EXCEPT !.kind = "scan"]
    /\ UNCHANGED <<remote_scan, local_scan, state_file, pc, last_token,
                   last_scan_timestamp, now, faults_left, sync_token, drive_vars,
                   planner_vars, scan_runs>>

\* run_full_scan_workflow sorts and writes what it collected, uploads it and
\* returns True (lines 209-227).
StoreScan ==
    /\ pc = "scan"
    /\ scanning.ended /= NoToken
    /\ LET file == SortByPath(scanning.scan_results)
           up == upload_file(remote_scan, file, NoFault)
       IN  Step("stored",
                [NoWorkflow(scanning.workflow) EXCEPT !.local = file,
                                                      !.remote = up.remote,
                                                      !.upload = up.upload],
                last_token, last_scan_timestamp, state_file, FALSE, NoRead)
    /\ pc' = "token"
    /\ UNCHANGED <<now, faults_left>>

\* main gets the token, takes the time and saves the state (lines 324-326 and
\* 337-338, 374); after a rescan it sleeps.
FinishFullScan ==
    /\ pc = "token"
    /\ LET token == IF TokenRequested = "before" THEN scanning.token
                    ELSE get_start_page_token(NoFault)
       IN  Step(IF scanning.workflow = "initial" THEN "start" ELSE "cycle",
                NoWorkflow(scanning.workflow), token, now, save_state(token, now),
                FALSE, NoRead)
    /\ pc' = "loop"
    /\ now' = IF scanning.workflow = "initial" THEN now ELSE now + 1
    /\ UNCHANGED faults_left

\* A turn of the loop when no rescan is due.
LoopTurn(listing) ==
    /\ ~RescanDue
    /\ MainCycle(listing, listing, NoFault)

ListingNext ==
    \/ DriveNext
    \/ \E workflow \in {"initial", "rescan"} : EnterFullScan(workflow)
    \/ BeginListing
    \/ \E f \in scanning.active_futures, listing \in ScanOrders : WorkerDone(f, listing)
    \/ StoreScan
    \/ FinishFullScan
    \/ \E listing \in ScanOrders : LoopTurn(listing)

SpecListing == DriveInit /\ [][ListingNext]_vars

(***************************************************************************)
(* Specification SpecFaults: in at most MaxFaults steps of main one of the *)
(* step's requests fails (`fault`); the process is not restarted.          *)
(***************************************************************************)
FaultsInit ==
    /\ remote_tree = [i \in ItemIds |-> Unborn]
    /\ change_log = <<>>
    /\ remote_scan = <<>>
    /\ local_scan = <<>>
    /\ state_file = NoState
    /\ pc = "boot"
    /\ last_token = NoToken
    /\ last_scan_timestamp = 0
    /\ now = 0
    /\ faults_left = MaxFaults
    /\ sync_token = NoToken
    /\ event = NoEvent
    /\ PlannerNotStarted
    /\ scan_runs = <<>>
    /\ scanning = NoScan

FaultsNext ==
    \/ DriveNext
    \/ \E listing \in ScanOrders, fault \in PossibleFaults :
           MainStart(listing, listing, fault)
    \/ \E listing \in ScanOrders, fault \in PossibleFaults :
           MainCycle(listing, listing, fault)

SpecFaults == FaultsInit /\ [][FaultsNext]_vars

(***************************************************************************)
(* Specification SpecSettle: SpecFaults with a clock that does not stop    *)
(* and a main that keeps running. The drive changes at most MaxChanges     *)
(* times and at most MaxFaults steps of main have a failing request, so in *)
(* every behaviour the tree stops changing and the requests succeed in the *)
(* end. main's loop sleeps and turns again for ever (lines 331, 375): its  *)
(* steps are weakly fair.                                                  *)
(***************************************************************************)
\* main reads the clock only to compare now - last_scan_timestamp with the
\* rescan interval (line 334). When now has reached MaxTime all times are moved
\* back by one tick: the difference stays, or stays above RescanTicks.
ClockShift ==
    /\ pc = "loop"
    /\ now = MaxTime
    /\ MaxTime - 1 > RescanTicks
    /\ now' = now - 1
    /\ last_scan_timestamp' = IF last_scan_timestamp > 0 THEN last_scan_timestamp - 1
                              ELSE 0
    /\ state_file' = IF state_file.last_full_scan_timestamp > 0
                     THEN [state_file EXCEPT !.last_full_scan_timestamp = @ - 1]
                     ELSE state_file
    /\ UNCHANGED <<remote_scan, local_scan, pc, last_token, faults_left, sync_token,
                   event, drive_vars, planner_vars, scan_runs, scanning>>

SettleStart ==
    \E listing \in ScanOrders, fault \in PossibleFaults : MainStart(listing, listing, fault)

SettleCycle ==
    \E listing \in ScanOrders, fault \in PossibleFaults : MainCycle(listing, listing, fault)

SettleNext ==
    \/ DriveNext
    \/ SettleStart
    \/ SettleCycle
    \/ ClockShift

\* A turn of the loop is possible: SettleCycle is enabled, as a turn in which no
\* request fails is always one of its steps.
TurnEnabled == pc = "loop" /\ now < MaxTime

\* Weak fairness of SettleCycle, written with its enabling condition and with
\* what tells its steps from all others, the sleep that moves the clock:
\* WF_vars(SettleCycle) is []<>~ENABLED <<SettleCycle>>_vars \/ []<><<SettleCycle>>_vars.
FairTurns == []<>(~TurnEnabled) \/ []<><<now' = now + 1>>_vars

\* Weak fairness of SettleStart: main, once started by the operating system, runs
\* its first lines; pc never returns to "boot".
FairStart == []<>(pc /= "boot")

SpecSettle ==
    /\ FaultsInit
    /\ [][SettleNext]_vars
    /\ WF_vars(ClockShift)
    /\ FairTurns
    /\ FairStart

(***************************************************************************)
(* Properties of the planner (specification SpecPlanner).                  *)
(***************************************************************************)
AllBatches(p) == UNION {Range(p.concatenation_plan[f]) : f \in FormatKeys}

TaskSize(p, id) == p.processing_tasks[id].estimated_size_bytes

Oversized(p, b) ==
    /\ Len(b.source_tasks) = 1
    /\ TaskSize(p, b.source_tasks[1]) > limit_bytes

\* C3: every batch of a returned plan has a total estimated size of at most the
\* limit, except a batch of exactly one task whose own size exceeds the limit.
C3_CapacityInvariant ==
    \A b \in AllBatches(plan_file) :
        BatchSize(b, plan_file.processing_tasks) <= limit_bytes \/ Oversized(plan_file, b)

\* A second run that took a retained batch apart (a member grew) and returned a
\* plan with a full batch of two tasks and an oversized task alone.
C3_Witness ==
    /\ runs = 2
    /\ \E b \in AllBatches(plan_last_run_file) :
           /\ Len(b.source_tasks) > 1
           /\ Range(b.source_tasks) \subseteq DOMAIN plan_file.processing_tasks
           /\ BatchSize(b, plan_file.processing_tasks) > limit_bytes
    /\ \E b \in AllBatches(plan_file) : Oversized(plan_file, b)
    /\ \E b \in AllBatches(plan_file) :
           Len(b.source_tasks) = 2 /\ BatchSize(b, plan_file.processing_tasks) = limit_bytes

\* C4: a run on the same tasks, with the plan returned for them as last_run_plan,
\* leaves every task in its batch: the diff of the two plans has no entry.
C4_Stability ==
    (/\ plan_last_run_file.present
     /\ plan_file.processing_tasks = plan_last_run_file.processing_tasks)
        => generate_diff(plan_last_run_file, plan_file) = {}

\* The one task that the latest run has and the run before had not, 0 when the two
\* runs do not differ by exactly one added task.
AddedTask ==
    LET old == plan_last_run_file.processing_tasks
        new == plan_file.processing_tasks
        added == DOMAIN new \ DOMAIN old
    IN  IF /\ plan_last_run_file.present
           /\ Cardinality(added) = 1
           /\ DOMAIN old \subseteq DOMAIN new
           /\ \A id \in DOMAIN old : new[id] = old[id]
        THEN CHOOSE id \in added : TRUE
        ELSE 0

\* C5: one new task, which every existing batch of its output format can take,
\* gives a diff with exactly one ADDED entry and no MOVED entry.
C5_MinimalChurn ==
    LET t == AddedTask
        new == plan_file.processing_tasks
        diff == generate_diff(plan_last_run_file, plan_file)
    IN  (/\ t /= 0
         /\ new[t].task_type /= "IGNORE"
         /\ \A b \in Range(plan_last_run_file.concatenation_plan[new[t].output_format]) :
                BatchSize(b, new) + new[t].estimated_size_bytes <= limit_bytes)
            => /\ Cardinality({e \in diff : e.kind = "ADDED"}) = 1
               /\ {e \in diff : e.kind = "MOVED"} = {}

\* Best fit, as the claim states it: among the batches that still fit the task,
\* the one with the least remaining room; 0 when none fits.
BestFitTargets(batch_list, task, tasks_map) ==
    LET eligible == {i \in DOMAIN batch_list :
                        BatchSize(batch_list[i], tasks_map) + task.estimated_size_bytes
                            <= limit_bytes}
    IN  {i \in eligible :
            \A j \in eligible :
                BatchSize(batch_list[i], tasks_map) >= BatchSize(batch_list[j], tasks_map)}

\* The plans that placing `order` by best fit can give.
RECURSIVE BestFitPlans(_, _, _)
BestFitPlans(plan, order, tasks_map) ==
    IF order = <<>> THEN {plan}
    ELSE LET tid == Head(order)
             task == tasks_map[tid]
             file_type == task.output_format
             batch_list == plan[file_type]
             targets == BestFitTargets(batch_list, task, tasks_map)
             next == IF targets /= {}
                     THEN {[plan EXCEPT ![file_type][i].source_tasks = Append(@, tid)] :
                              i \in targets}
                     ELSE {PlaceTask(plan, tid, tasks_map)}
         IN  UNION {BestFitPlans(q, Tail(order), tasks_map) : q \in next}

SameBatch(p, a, b) == FileToBatch(p, a) /= NoBatch /\ FileToBatch(p, a) = FileToBatch(p, b)

\* C6: a first run places the tasks in descending size order, each into the fitting
\* batch with the least remaining room, a new batch only when none fits; and for
\* A:50 (file 1), B:60 (file 2), C:40 (file 3) with limit 100, C is with B, A alone.
C6_BestFitPlacement ==
    runs = 1 =>
        LET tasks == plan_file.processing_tasks
            ids == {i \in DOMAIN tasks : tasks[i].task_type /= "IGNORE"}
        IN  /\ \E order \in PlacementOrders(ids, tasks) :
                   plan_file.concatenation_plan
                       \in BestFitPlans(EmptyConcatenationPlan, order, tasks)
            /\ (/\ LimitUnits = 10
                /\ client_files = <<[mimeType |-> "application/pdf", size |-> 5],
                                    [mimeType |-> "application/pdf", size |-> 6],
                                    [mimeType |-> "application/pdf", size |-> 4]>>)
                   => /\ SameBatch(plan_file, 3, 2)
                      /\ ~SameBatch(plan_file, 1, 2)

\* The one task of the run before that the latest run no longer has, 0 when the
\* two runs do not differ by exactly one removed task that was in a batch.
RemovedTask ==
    LET old == plan_last_run_file.processing_tasks
        new == plan_file.processing_tasks
        removed == DOMAIN old \ DOMAIN new
    IN  IF /\ plan_last_run_file.present
           /\ Cardinality(removed) = 1
           /\ DOMAIN new \subseteq DOMAIN old
           /\ \A id \in DOMAIN new : new[id] = old[id]
           /\ \A id \in removed : FileToBatch(plan_last_run_file, id) /= NoBatch
        THEN CHOOSE id \in removed : TRUE
        ELSE 0

\* The part of C7 about the batch of the removed task.
RemovedFromItsBatch ==
    LET t == RemovedTask
    IN  t /= 0 =>
            /\ FileToBatch(plan_file, t) = NoBatch
            /\ \A id \in DOMAIN plan_file.processing_tasks :
                   FileToBatch(plan_last_run_file, id) = FileToBatch(plan_last_run_file, t)
                       => FileToBatch(plan_file, id) = FileToBatch(plan_last_run_file, id)
            /\ \A b \in AllBatches(plan_file) : b.source_tasks /= <<>>

\* C7: a task of a batch of the previous plan that is absent from the current
\* tasks is in no batch of the new plan, the other members of its batch keep the
\* batch id, no batch without members appears, and the diff is the single entry
\* REMOVED for that task.
C7_RemovedTask ==
    LET t == RemovedTask
        diff == generate_diff(plan_last_run_file, plan_file)
    IN  t /= 0 =>
            /\ RemovedFromItsBatch
            /\ diff = {[file_id |-> t, kind |-> "REMOVED",
                        from |-> FileToBatch(plan_last_run_file, t), to |-> NoBatch]}

\* The batches of a concatenation plan as pairs of batch id and set of members.
BatchMembers(cp) ==
    {<<b.batch_id, Range(b.source_tasks)>> : b \in UNION {Range(cp[f]) : f \in FormatKeys}}

\* C11: plan_concatenation is deterministic: on the tasks and the last_run_plan of
\* the latest run, every order in which the set of the task ids to place can be
\* iterated gives the batch ids and the members that the run returned.
C11_Deterministic ==
    runs > 0 =>
        LET tasks == plan_file.processing_tasks
            last_run_plan == plan_last_run_file
        IN  \A order \in PlacementOrders(TasksToPlace(tasks, last_run_plan), tasks) :
                BatchMembers(plan_concatenation(tasks, last_run_plan, order))
                    = BatchMembers(plan_file.concatenation_plan)

\* C14: the diff of a baseline plan and a new plan has exactly one entry for each
\* task whose batch id differs between the two: ADDED when it is in no baseline
\* batch, REMOVED when it is in no new batch, MOVED when it is in a batch of both;
\* and no entry for a task whose batch id is the same in both.
C14_DiffEntries ==
    LET diff == generate_diff(plan_last_run_file, plan_file)
    IN  \A id \in TaskIds :
            LET old_batch == FileToBatch(plan_last_run_file, id)
                new_batch == FileToBatch(plan_file, id)
                entries == {e \in diff : e.file_id = id}
            IN  IF old_batch = new_batch THEN entries = {}
                ELSE /\ Cardinality(entries) = 1
                     /\ \A e \in entries :
                            /\ e.from = old_batch
                            /\ e.to = new_batch
                            /\ e.kind = "ADDED" <=> old_batch = NoBatch
                            /\ e.kind = "REMOVED" <=> new_batch = NoBatch
                            /\ e.kind = "MOVED" <=>
                                   (old_batch /= NoBatch /\ new_batch /= NoBatch)

\* A second run whose diff against the plan before has a MOVED entry and an ADDED
\* or REMOVED entry, and a task in the same batch of both plans without entry.
C14_Witness ==
    LET diff == generate_diff(plan_last_run_file, plan_file)
    IN  /\ runs = 2
        /\ \E e \in diff : e.kind = "MOVED"
        /\ \E e \in diff : e.kind \in {"ADDED", "REMOVED"}
        /\ \E id \in TaskIds :
               /\ FileToBatch(plan_file, id) /= NoBatch
               /\ FileToBatch(plan_file, id) = FileToBatch(plan_last_run_file, id)
               /\ \A e \in diff : e.file_id /= id

\* C15: in every returned plan all tasks of a batch have one output format, the
\* format that the batch id names, also a retained task whose format changed.
C15_OneFormatPerBatch ==
    \A f \in FormatKeys :
        \A b \in Range(plan_file.concatenation_plan[f]) :
            \A id \in Range(b.source_tasks) :
                plan_file.processing_tasks[id].output_format = b.batch_id[1]

\* The batches of the previous plan, of the output format of task t of the
\* latest run, that can take t within the limit.
FittingBatches(t) ==
    LET new == plan_file.processing_tasks
    IN  {b \in Range(plan_last_run_file.concatenation_plan[new[t].output_format]) :
            BatchSize(b, new) + new[t].estimated_size_bytes <= limit_bytes}

\* C27: one new task, for which several batches of the previous plan have room,
\* all with the same room, goes to the one of them with the lowest batch number,
\* whatever their order in the previous plan.
C27_TieLowestNumber ==
    LET t == AddedTask
        new == plan_file.processing_tasks
    IN  (/\ t /= 0
         /\ new[t].task_type /= "IGNORE"
         /\ Cardinality(FittingBatches(t)) >= 2
         /\ \A b, c \in FittingBatches(t) : BatchSize(b, new) = BatchSize(c, new))
            => \E b \in FittingBatches(t) :
                  /\ FileToBatch(plan_file, t) = b.batch_id
                  /\ \A c \in FittingBatches(t) : b.batch_id[2] <= c.batch_id[2]

\* The members of a batch of the previous plan that are among the tasks that
\* plan_concatenation plans now (current_task_ids, line 237).
RemainingMembers(b) ==
    {id \in Range(b.source_tasks) :
        /\ id \in DOMAIN plan_file.processing_tasks
        /\ plan_file.processing_tasks[id].task_type /= "IGNORE"}

\* The size of a set of tasks at the sizes of the latest run.
RECURSIVE SizeOfSet(_)
SizeOfSet(ids) ==
    IF ids = {} THEN 0
    ELSE LET id == CHOOSE x \in ids : TRUE
         IN  plan_file.processing_tasks[id].estimated_size_bytes + SizeOfSet(ids \ {id})

\* C28: a task of a batch of the previous plan that is still planned stays in
\* the batch with the same id, unless the batch's remaining members at their
\* updated sizes exceed the limit.
C28_RetainedKeepBatch ==
    plan_last_run_file.present =>
        \A f \in FormatKeys :
            \A b \in Range(plan_last_run_file.concatenation_plan[f]) :
                SizeOfSet(RemainingMembers(b)) <= limit_bytes =>
                    \A id \in RemainingMembers(b) :
                        FileToBatch(plan_file, id) = b.batch_id

\* A second run after which a batch of the plan before holds, under its id, two
\* of its members, one of them at a changed size, still within the limit.
C28_Witness ==
    /\ plan_last_run_file.present
    /\ \E f \in FormatKeys :
         \E b \in Range(plan_last_run_file.concatenation_plan[f]) :
            /\ Cardinality(RemainingMembers(b)) >= 2
            /\ SizeOfSet(RemainingMembers(b)) <= limit_bytes
            /\ \E id \in RemainingMembers(b) :
                   plan_file.processing_tasks[id].estimated_size_bytes
                       /= plan_last_run_file.processing_tasks[id].estimated_size_bytes
            /\ \E pb \in Range(plan_file.concatenation_plan[f]) :
                   /\ pb.batch_id = b.batch_id
                   /\ RemainingMembers(b) \subseteq Range(pb.source_tasks)

\* The sets of members that can remain when members are evicted largest first,
\* one at a time, until the rest fits the limit.
RECURSIVE KeptSets(_)
KeptSets(ids) ==
    IF SizeOfSet(ids) <= limit_bytes THEN {ids}
    ELSE UNION {KeptSets(ids \ {m}) :
                  m \in {x \in ids :
                            \A y \in ids :
                                plan_file.processing_tasks[y].estimated_size_bytes
                                    <= plan_file.processing_tasks[x].estimated_size_bytes}}

\* C29: a retained batch that exceeds the limit at the updated sizes loses its
\* largest members only until it fits, and the members that remain are in the
\* batch with the same id in the new plan.
C29_EvictLargestFirst ==
    plan_last_run_file.present =>
        \A f \in FormatKeys :
            \A b \in Range(plan_last_run_file.concatenation_plan[f]) :
                SizeOfSet(RemainingMembers(b)) > limit_bytes =>
                    \E kept \in KeptSets(RemainingMembers(b)) :
                        \A id \in kept : FileToBatch(plan_file, id) = b.batch_id

\* The places of all batches of a plan file: output format and index in its list.
BatchPlaces(p) ==
    UNION {{<<f, i>> : i \in DOMAIN p.concatenation_plan[f]} : f \in FormatKeys}

\* C30: the batch ids of a returned plan are pairwise distinct; a batch newly
\* opened carries an id that no other batch of the plan carries.
C30_DistinctBatchIds ==
    \A x, y \in BatchPlaces(plan_file) :
        x /= y => plan_file.concatenation_plan[x[1]][x[2]].batch_id
                      /= plan_file.concatenation_plan[y[1]][y[2]].batch_id

\* A run that opened a batch whose number is above its place in the list: the
\* number len+1 was taken by a retained batch and the loop counted on.
C30_Witness ==
    /\ plan_last_run_file.present
    /\ \E f \in FormatKeys :
         \E i \in DOMAIN plan_file.concatenation_plan[f] :
            LET b == plan_file.concatenation_plan[f][i]
            IN  /\ b.batch_id[2] > i
                /\ \A ob \in Range(plan_last_run_file.concatenation_plan[f]) :
                       ob.batch_id /= b.batch_id
                /\ \E j \in DOMAIN plan_file.concatenation_plan[f] :
                       /\ j < i
                       /\ plan_file.concatenation_plan[f][j].batch_id[2] = i

(***************************************************************************)
(* Properties of the full scan (specification SpecScan).                   *)
(***************************************************************************)
\* C9: two full scans of the same unchanged tree, with no failing request, write
\* the same sequence of records, whatever the order of the workers.
C9_IdempotentFullScan ==
    \A i, j \in DOMAIN scan_runs : scan_runs[i].file = scan_runs[j].file

\* Two scans of one tree whose workers completed in different orders: two items
\* of different folders were collected in one order by the first scan and in the
\* other order by the second.
C9_Witness ==
    /\ Len(scan_runs) = 2
    /\ \E a, b \in ItemIds :
           /\ Live(remote_tree, a) /\ Live(remote_tree, b)
           /\ remote_tree[a].parent /= remote_tree[b].parent
           /\ IndexOf(scan_runs[1].scan_results, a) < IndexOf(scan_runs[1].scan_results, b)
           /\ IndexOf(scan_runs[2].scan_results, b) < IndexOf(scan_runs[2].scan_results, a)
    /\ scan_runs[1].file = scan_runs[2].file

(***************************************************************************)
(* Properties of main (specifications Spec and SpecFaults).                *)
(***************************************************************************)
\* The last step was a cycle whose patch ran to its end and was uploaded, on a
\* cache that was a full scan of the tree at the token of the cycle.
PatchedInSync ==
    /\ event.kind = "cycle"
    /\ event.workflow = "patch"
    /\ event.in_sync
    /\ event.upload = "ok"

\* C1: a patch applied to a cache that equals a full scan of the earlier tree
\* persists the records and paths that a full scan of the tree's end state would
\* persist.
C1_PatchEqualsFullScan ==
    PatchedInSync => remote_scan = CleanFullScan(remote_tree)

\* C2: in a cycle of main a new token is saved only after the cache of the cycle's
\* patch or full scan is stored: a cycle whose upload fails leaves the saved token
\* as it was.
C2_TokenAfterCacheStored ==
    (event.kind = "cycle" /\ event.upload = "failed") => ~event.token_saved

\* C8: in every persisted cache each record but the root's has the record of its
\* parent, and its path is the parent's path, a slash and its name.
C8_PathInvariant ==
    \A i \in DOMAIN remote_scan :
        Len(remote_scan[i].path) > 1 =>
            \E j \in DOMAIN remote_scan :
                remote_scan[i].path = Append(remote_scan[j].path, remote_scan[i].name)

\* C10: when a listing fails during a full scan, the incomplete result is not
\* written as the cache, and the cache and the token of before stay.
C10_PartialScanDiscarded ==
    (/\ event.workflow \in {"initial", "rescan", "fallback"}
     /\ event.list_failed
     /\ local_scan /= CleanFullScan(remote_tree)) =>
        (~event.cache_written /\ ~event.token_saved)

\* Whether the records of a cache are in the order of their paths.
OrderedByPath(cache) ==
    \A i, j \in DOMAIN cache : i < j => ~PathLess(cache[j].path, cache[i].path)

\* C12: every cache written by run_full_scan_workflow or run_patch_workflow, the
\* local file and the uploaded one, is ordered by path: no record's path is smaller
\* than the path of the record before it.
C12_OrderedByPath == OrderedByPath(local_scan) /\ OrderedByPath(remote_scan)

\* A patch stored a cache in which a record made from a change, which the patch
\* put last into cache_by_id, stands before a record of the cache it read.
C12_Witness ==
    /\ event.workflow = "patch"
    /\ event.cache_written
    /\ remote_scan = local_scan
    /\ \E i, j \in DOMAIN remote_scan :
           /\ i < j
           /\ remote_scan[i].id = NoId
           /\ remote_scan[j].id \in ItemIds

\* C13: when the state file is missing or cannot be parsed, main behaves as with
\* a null token: its start runs the initial full scan, before any read of the
\* change feed.
C13_NoStateColdStart ==
    (event.kind = "start" /\ event.state_read \in {"missing", "corrupt"})
        => event.workflow = "initial"

\* main started on a state file that could not be parsed, on a drive with items,
\* and ran the full scan.
C13_Witness ==
    /\ event.kind = "start"
    /\ event.state_read = "corrupt"
    /\ event.workflow = "initial"
    /\ sync_token = Len(change_log)
    /\ Len(change_log) > 0

\* C16: every record of every persisted cache carries the same fields, the
\* item's id among them; the root's record may carry the drive's fields too.
C16_SameFields ==
    \A i \in DOMAIN remote_scan :
        /\ "id" \in remote_scan[i].fields
        /\ remote_scan[i].fields \ {"driveId"} = ListedFields

\* The path of a live item in the tree.
TruePath(tree, id) == get_full_path(tree, id, RootName)

\* p is q or lies under q.
AtOrUnder(p, q) == p = q \/ StartsWithSlash(p, q)

\* The step is a cycle of main that ran a patch to its end and stored the cache.
PatchStep ==
    /\ event'.kind = "cycle"
    /\ event'.workflow = "patch"
    /\ event'.upload = "ok"

\* The changes that the patch of the step is given.
StepChanges == relevant_changes(list_changes(remote_tree, change_log, last_token, NoFault))

\* C17: when a patch applies a removed change for a folder, the cache it persists
\* has no record at the folder's path and no record under it (checked when no
\* item of the tree is at or under that path, so that such a record is stale).
C17_RemovedFolderSubtree ==
    [][PatchStep =>
        \A i \in DOMAIN remote_scan :
            (/\ remote_scan[i].folder
             /\ remote_scan[i].id \in ItemIds
             /\ \E k \in DOMAIN StepChanges :
                    StepChanges[k].fileId = remote_scan[i].id /\ StepChanges[k].removed
             /\ \A x \in ItemIds :
                    Live(remote_tree, x)
                        => ~AtOrUnder(TruePath(remote_tree, x), remote_scan[i].path))
            => \A j \in DOMAIN remote_scan' :
                   ~AtOrUnder(remote_scan'[j].path, remote_scan[i].path)]_vars

C19_DriveChangeFullScan ==
    (event.kind = "cycle" /\ event.drive_change) => event.workflow = "fallback"

C22_FailedCycleKeepsToken ==
    [][(/\ event'.kind = "cycle"
        /\ \/ event'.workflow = "no_answer"
           \/ event'.workflow = "fallback" /\ ~event'.ok)
          => /\ last_token' = last_token
             /\ state_file'.startPageToken = state_file.startPageToken]_vars

\* A cycle with changes waiting whose patch fell back to a full scan that failed:
\* the token is the one from before and the changes are still ahead of it.
C22_Witness ==
    /\ event.kind = "cycle"
    /\ event.workflow = "fallback"
    /\ ~event.ok
    /\ last_token /= NoToken
    /\ state_file.startPageToken = last_token
    /\ last_token < Len(change_log)

\* The time at which the step that led to this state began: a start of main does
\* not move the clock, a cycle ends with the sleep of one polling interval.
StepTime == IF event.kind = "cycle" THEN now - 1 ELSE now

\* C25: after every successful full scan (the initial one, a scheduled one, one
\* that the patch workflow fell back to) the state file holds the drive's current
\* start page token and, as last_full_scan_timestamp, the time of that scan.
C25_FullScanStoresTokenAndTime ==
    (/\ event.kind \in {"start", "cycle"}
     /\ event.workflow \in {"initial", "rescan", "fallback"}
     /\ event.ok)
        => /\ state_file.present
           /\ state_file.startPageToken = get_start_page_token(NoFault)
           /\ state_file.last_full_scan_timestamp = StepTime

\* C26: main never stores a state without a token, and never stands in its loop
\* with no token when the next turn requests the changes: after a failed
\* get_start_page_token it obtains a token before it goes on.
C26_NoNullToken ==
    /\ state_file.present => state_file.startPageToken /= NoToken
    /\ (pc = "loop" /\ ~RescanDue) => last_token /= NoToken

(***************************************************************************)
(* Properties of a patch on a batch with several records of one item       *)
(* (specification SpecBatch).                                              *)
(***************************************************************************)
\* No record of the cache is a record of the item: none carries its id, and every
\* record stored without id lies at the path of another item, which exists.
AbsentFrom(cache, item) ==
    \A i \in DOMAIN cache :
        /\ cache[i].id /= item
        /\ cache[i].id = NoId =>
               \E other \in ItemIds \ {item} :
                   /\ Live(remote_tree, other)
                   /\ cache[i].path = TruePath(remote_tree, other)

FullScanFinished ==
    /\ event.kind \in {"start", "cycle"}
    /\ event.workflow \in {"initial", "rescan"}
    /\ scanning.workflow = event.workflow

\* C23: the token that main stores after the full scan of a cold start or of a
\* scheduled rescan was requested after the listing had begun: it is not behind
\* the change log as it was when the listing began.
C23_TokenAfterListingBegan ==
    FullScanFinished =>
        /\ last_token /= NoToken
        /\ last_token >= scanning.started
        /\ state_file.startPageToken = last_token

\* A scheduled rescan during which the drive changed after the listing had begun:
\* the token stored is ahead of the log as it was then.
C23_Witness ==
    /\ FullScanFinished
    /\ event.workflow = "rescan"
    /\ last_token > scanning.started

\* The cache shows the item as it is now: a record with its id at its path if it
\* exists, no record with its id if it does not.
ShownIn(cache, id) ==
    IF Live(remote_tree, id)
    THEN \E i \in DOMAIN cache :
            /\ cache[i].id = id
            /\ cache[i].path = TruePath(remote_tree, id)
    ELSE \A i \in DOMAIN cache : cache[i].id /= id

\* C24: when main has stored the token after a full scan, every change made to
\* the tree while the listing was in progress is in the cache that the scan wrote
\* or is ahead of the token, where the next read of the feed returns it. Stated
\* for the scans after whose listing the drive did not change any more.
C24_NoChangeLost ==
    (FullScanFinished /\ Len(change_log) = scanning.ended) =>
        \A i \in (scanning.started + 1)..scanning.ended :
            \/ change_log[i] = Root
            \/ ShownIn(remote_scan, change_log[i])
            \/ i > last_token

(***************************************************************************)
(* Further properties of the planner (specification SpecPlanner).          *)
(***************************************************************************)
\* C31: a batch of the new plan that carries the id of a batch of the previous
\* plan holds at least one member of that batch: when all members of a batch were
\* removed or evicted, no batch made of other tasks takes its id.
C31_RetiredBatchId ==
    plan_last_run_file.present =>
        \A f \in FormatKeys :
            \A old \in Range(plan_last_run_file.concatenation_plan[f]) :
                \A new \in AllBatches(plan_file) :
                    new.batch_id = old.batch_id =>
                        Range(new.source_tasks) \cap Range(old.source_tasks) /= {}

\* Lines 264-268: the tasks of the batches for which plan_concatenation logs the
\* warning "exceeds size limit after updates", the one message it has for a size
\* above the limit.
WarnedTasks(tasks, last_run_plan) ==
    LET current_tasks_map == [id \in {i \in DOMAIN tasks : tasks[i].task_type /= "IGNORE"}
                                 |-> tasks[id]]
        old_task_ids == IF last_run_plan.present
                        THEN DOMAIN last_run_plan.processing_tasks ELSE {}
        deleted_task_ids == old_task_ids \ DOMAIN current_tasks_map
    IN  UNION {DeconstructedTasks(RetainedBatches(last_run_plan, f, current_tasks_map,
                                                  deleted_task_ids),
                                  current_tasks_map) : f \in FormatKeys}

\* C32: every planned task whose size is above the limit is alone in its batch of
\* the returned plan, and the run that returned the plan flagged it.
C32_OversizedAloneAndFlagged ==
    \A id \in DOMAIN plan_file.processing_tasks :
        (/\ plan_file.processing_tasks[id].task_type /= "IGNORE"
         /\ plan_file.processing_tasks[id].estimated_size_bytes > limit_bytes)
            => /\ \E b \in AllBatches(plan_file) : b.source_tasks = <<id>>
               /\ id \in WarnedTasks(plan_file.processing_tasks, plan_last_run_file)

\* C36: in every returned plan each current task that is not IGNORE is a member
\* of exactly one batch, at exactly one place of it.
C36_EveryTaskInOneBatch ==
    \A id \in DOMAIN plan_file.processing_tasks :
        plan_file.processing_tasks[id].task_type /= "IGNORE" =>
            Cardinality({x \in BatchPlaces(plan_file) :
                            id \in Range(plan_file.concatenation_plan[x[1]][x[2]].source_tasks)})
                = 1

(***************************************************************************)
(* Further properties of the listener.                                     *)
(***************************************************************************)
\* C33: when, in a patch, the metadata fetch of get_full_path fails for the item
\* of a change or for a folder above it, the patch is abandoned and a full scan
\* runs: no record made by the patch is persisted, and every persisted record has
\* the whole path of its item.
C33_MetaFailureAbandonsPatch ==
    (event.kind = "cycle" /\ event.meta_failed) =>
        /\ event.workflow = "fallback"
        /\ \A i \in DOMAIN remote_scan :
               /\ remote_scan[i].id /= NoId
               /\ remote_scan[i].path = TruePath(remote_tree, remote_scan[i].id)

\* A patch that had applied a change, met the failing fetch at a later change for
\* an item that lies below a folder, and was replaced by the full scan.
C33_Witness ==
    /\ event.kind = "cycle"
    /\ event.meta_failed
    /\ event.fallback = "exception"
    /\ event.applied >= 1
    /\ event.workflow = "fallback"
    /\ \E i \in DOMAIN remote_scan : Len(remote_scan[i].path) >= 3
    /\ remote_scan = CleanFullScan(remote_tree)

\* The records of `results` hold every live item of the tree once, and nothing
\* else.
HoldsEachItemOnce(results, tree) ==
    /\ \A id \in ItemIds :
           Live(tree, id) =>
               Cardinality({i \in DOMAIN results : results[i].id = id}) = 1
    /\ \A i \in DOMAIN results : Live(tree, results[i].id)

\* C34: when no listing fails, _perform_scan returns, and what it returns holds
\* every item below the root exactly once, the items of the later pages of a
\* listing included, for every order of the listings and every order in which
\* the workers complete.
C34_ScanListsEveryItemOnce ==
    \A k \in DOMAIN scan_runs :
        HoldsEachItemOnce(Tail(scan_runs[k].scan_results), remote_tree)

\* A scan of a tree in which a folder has more children than a page holds and
\* the listings of two folders and of the root are run by workers.
C34_Witness ==
    /\ Len(scan_runs) >= 1
    /\ \E f \in {Root} \cup ItemIds :
           Cardinality(ChildrenOf(remote_tree, f)) > PageSize
    /\ Cardinality({id \in ItemIds : IsFolder(remote_tree, id)}) >= 2
    /\ Len(scan_runs[1].scan_results) = NumItems + 1

\* What the feed holds for main before a step: the changes after main's token.
FeedBefore == list_changes(remote_tree, change_log, last_token, NoFault)

\* C39: a cycle of main that is not a scheduled rescan and in which the feed
\* returns no change, or only changes of the drive's own properties, which main
\* drops, runs no workflow and uploads nothing: the token that main holds and the
\* one in the state file become the token of the feed, and the cache and
\* last_full_scan_timestamp stay as they were.
C39_IdleCycleAdvancesTokenOnly ==
    [][(/\ pc = "loop"
        /\ event'.kind = "cycle"
        /\ last_token /= NoToken
        /\ ~RescanDue
        /\ \A i \in DOMAIN FeedBefore : FeedBefore[i].changeType = "drive")
          => /\ last_token' = Len(change_log)
             /\ state_file'.startPageToken = Len(change_log)
             /\ event'.upload = "none"
             /\ remote_scan' = remote_scan
             /\ local_scan' = local_scan
             /\ last_scan_timestamp' = last_scan_timestamp
             /\ state_file'.last_full_scan_timestamp = last_scan_timestamp]_vars

\* A cycle whose feed had a change of the drive's properties and nothing else,
\* on a cache that a patch had written: the token moved and the cache stayed.
C39_Witness ==
    /\ event.kind = "cycle"
    /\ event.workflow = "no_relevant"
    /\ event.drive_change
    /\ event.token_saved
    /\ last_token = Len(change_log)
    /\ state_file.startPageToken = last_token
    /\ \E i \in DOMAIN remote_scan : remote_scan[i].id = NoId

\* The feed before the step has a change of an item whose parents form a cycle.
CycleInFeed ==
    \E i \in DOMAIN FeedBefore :
        /\ FeedBefore[i].changeType = "file"
        /\ ~FeedBefore[i].removed
        /\ ~ReachesRoot(remote_tree, FeedBefore[i].fileId)

\* C35: a cycle of main whose batch has a change of an item whose parent links
\* form a cycle ends with the cache and the token as they were persisted before.
C35_ParentCycleKeepsState ==
    [][(/\ pc = "loop"
        /\ event'.kind = "cycle"
        /\ last_token /= NoToken
        /\ ~RescanDue
        /\ CycleInFeed)
          => /\ remote_scan' = remote_scan
             /\ last_token' = last_token
             /\ state_file'.startPageToken = state_file.startPageToken]_vars

\* Every change that the feed holds for main before the step is one of
\* upload_file's own: the tree got no change from outside since main's token.
OnlyOwnWritesInFeed ==
    /\ FeedBefore /= <<>>
    /\ \A i \in DOMAIN FeedBefore : IsScanFile(FeedBefore[i].fileId)

\* C37: a cycle of main that finds in the feed only what upload_file did to
\* drive_scan.jsonl in an earlier cycle does not run the patch workflow: it finds
\* no relevant change.
C37_OwnWritesNotRelevant ==
    [][(/\ pc = "loop"
        /\ event'.kind = "cycle"
        /\ last_token /= NoToken
        /\ ~RescanDue
        /\ OnlyOwnWritesInFeed)
          => event'.workflow = "no_relevant"]_vars

\* C38: in every behaviour in which main keeps turning, from some cycle on the
\* persisted cache is the full listing of the remote tree, for as long as main is
\* in its loop. (In SpecSettle the tree stops changing and the requests stop
\* failing in every behaviour.)
C38_CacheSettlesOnFullListing ==
    <>[](pc = "loop" => remote_scan = CleanFullScan(remote_tree))

\* A scheduled rescan, after the last change of the drive and the last failing
\* request, that replaced a cache which was not the full listing by the full
\* listing.
C38_Witness ==
    /\ event.kind = "cycle"
    /\ event.workflow = "rescan"
    /\ event.cache_written
    /\ faults_left = 0
    /\ Len(change_log) = MaxChanges
    /\ Len(remote_scan) >= 2
    /\ remote_scan = CleanFullScan(remote_tree)

=============================================================================
